---- MODULE Spec2Model ----
(***************************************************************************)
(* Model of the audit pipeline of the Etsy Help Center auditor:            *)
(*   auditor/content_analyzer.py  ContentAnalyzer.analyze (response        *)
(*                                interpretation, hardcoded-link pre-scan)  *)
(*   auditor/ui_verifier.py       UIVerifier._check_known_element,          *)
(*                                _verify_live                              *)
(*   auditor/report.py            generate_report, _get_quality_rating,     *)
(*                                AuditReport.total_issues                  *)
(*                                                                         *)
(* Python values are records of one fixed shape (PyVal below); Python str  *)
(* is a TLA+ string where only equality matters and a sequence of          *)
(* one-character strings where the code searches inside it.  A model       *)
(* response is a sequence of lexical tokens.                               *)
(***************************************************************************)
EXTENDS Integers, Sequences, FiniteSets, TLC

VARIABLES
    pc,             \* position of the audit: "start", "analyzed", "reported"
    article,        \* the Article handed to analyze / generate_report
    sent,           \* how the model wrote its response (the input drawn)
    response_text,  \* response.content[0].text, a sequence of tokens
    outcome,        \* what analyze did: path, raised, result
    report,         \* what generate_report did: raised, result
    element,        \* the UIElement being classified
    verification,   \* the VerificationResult of the element
    elements,       \* the UIElements extracted from the article body
    ui_report,      \* the UIVerificationReport of verify_article, or None
    scanned,        \* the list returned by _check_hardcoded_links
    articles,       \* the locators of a batch audit, in input order
    cursor,         \* the position of the batch loop in articles
    results,        \* the reports the batch has collected
    attempts,       \* what audit_article did for each locator so far
    messages,       \* st.error and st.warning calls, oldest first
    json_text,      \* the text returned by to_json, as tokens
    markdown,       \* the lines joined by to_markdown
    html_content,   \* the markup given to the text extraction
    extracted,      \* the text the extraction returned
    connected,      \* st.session_state.connected
    zendesk_client, \* st.session_state.zendesk_client, or None
    analyzer,       \* st.session_state.analyzer, or None
    audit_history,  \* st.session_state.audit_history
    calls,          \* the collaborator calls of the audit under way
    produced,       \* the reports audit_article has returned so far
    steps,          \* the button presses of the session so far
    secrets,        \* st.secrets: readable or not, and its entries
    environ,        \* os.environ
    lookup,         \* the arguments of a get_secret call
    secret          \* what get_secret returned

\* the variables of report formatting and text extraction
texts == <<json_text, markdown, html_content, extracted>>

\* the variables of a session of the application and of its configuration
session == <<connected, zendesk_client, analyzer, audit_history, calls, produced, steps,
            secrets, environ, lookup, secret>>

\* the variables of a batch audit
batch == <<articles, cursor, results, attempts, messages>>

\* the variables of the steps around analyze and the classification
others == <<elements, ui_report, scanned, articles, cursor, results, attempts, messages,
           json_text, markdown, html_content, extracted, session>>

vars == <<pc, article, sent, response_text, outcome, report, element, verification,
          elements, ui_report, scanned, articles, cursor, results, attempts, messages,
          json_text, markdown, html_content, extracted,
          connected, zendesk_client, analyzer, audit_history, calls, produced, steps,
          secrets, environ, lookup, secret>>

(***************************************************************************)
(* Bounds of the model.                                                    *)
(***************************************************************************)
MaxKeys  == 2    \* keys the model puts in its JSON object
MaxCut   == 1    \* tokens a truncated response loses at its end
MaxTime  == 2    \* distinct values of datetime.now()
MaxWords == 2    \* phrases joined in the text of a UI element
MaxScore == 130  \* scores tried on _get_quality_rating: 100 - MaxScore .. MaxScore
MaxElems == 3    \* UI elements extracted from one article body
MaxLinks == 3    \* anchors with an href in a scanned body
MaxBatch == 2    \* locators in one batch audit
MaxChars == 5    \* characters in the first text node of an extracted markup

(***************************************************************************)
(* Generic helpers on sequences.                                           *)
(***************************************************************************)
Range(s) == {s[i] : i \in DOMAIN s}

\* Python "needle in hay" on str, and re.search of a pattern without
\* metacharacters.
Contains(hay, needle) ==
    \E i \in 0..(Len(hay) - Len(needle)) :
        \A j \in 1..Len(needle) : hay[i + j] = needle[j]

\* Python str.startswith
StartsWith(hay, needle) ==
    /\ Len(needle) <= Len(hay)
    /\ \A j \in 1..Len(needle) : hay[j] = needle[j]

\* the Python str made of the characters of a character sequence
RECURSIVE Join(_)
Join(cs) == IF cs = <<>> THEN "" ELSE Head(cs) \o Join(Tail(cs))

(***************************************************************************)
(* Python values, as json.loads builds them and as the dataclasses hold    *)
(* them.  jt is the Python type; n the int (or 0/1 for bool); s the str;   *)
(* items the list elements or dict values; keys the dict keys.             *)
(***************************************************************************)
PyInt(n)           == [jt |-> "int",  n |-> n, s |-> "", keys |-> <<>>, items |-> <<>>]
PyStr(s)           == [jt |-> "str",  n |-> 0, s |-> s,  keys |-> <<>>, items |-> <<>>]
PyBool(b)          == [jt |-> "bool", n |-> IF b THEN 1 ELSE 0, s |-> "", keys |-> <<>>, items |-> <<>>]
PyNone             == [jt |-> "None", n |-> 0, s |-> "", keys |-> <<>>, items |-> <<>>]
PyList(items)      == [jt |-> "list", n |-> 0, s |-> "", keys |-> <<>>, items |-> items]
\* a float that is a quotient: n over the denominator spelled in s
PyFloat(num, den)  == [jt |-> "float", n |-> num, s |-> ToString(den), keys |-> <<>>, items |-> <<>>]
PyDict(keys, vals) == [jt |-> "dict", n |-> 0, s |-> "", keys |-> keys, items |-> vals]

\* dict.get(key, default); json.loads keeps the last of duplicate keys
HasKey(d, key) == \E i \in DOMAIN d.keys : d.keys[i] = key
DictGet(d, key, default) ==
    IF HasKey(d, key)
    THEN d.items[CHOOSE i \in DOMAIN d.keys :
                    /\ d.keys[i] = key
                    /\ \A j \in DOMAIN d.keys : d.keys[j] = key => j <= i]
    ELSE default

\* hashable values may enter a set()
Hashable(v) == v.jt \notin {"list", "dict"}

(***************************************************************************)
(* Tokens of a response text.  k is the kind: one of the punctuation       *)
(* marks { } [ ] : , or "str" (a quoted string, s its content), "int"      *)
(* (n its value), "float" (n over the denominator spelled in s), "true",   *)
(* "false", "null", or "word" (a word of prose).                           *)
(***************************************************************************)
Tok(k)     == [k |-> k, s |-> "", n |-> 0]
TokStr(s)  == [k |-> "str", s |-> s, n |-> 0]
TokInt(n)  == [k |-> "int", s |-> "", n |-> n]
TokFloat(n, s) == [k |-> "float", s |-> s, n |-> n]
TokWord(s) == [k |-> "word", s |-> s, n |-> 0]

(***************************************************************************)
(* re.search(r'\{[\s\S]*\}', response_text): the leftmost "{" that has a   *)
(* "}" after it, extended greedily to the LAST "}" of the text.            *)
(* The result is the matched slice, or <<>> for no match (a match is never *)
(* empty).                                                                 *)
(***************************************************************************)
Opens(text)  == {i \in DOMAIN text : text[i].k = "{"}
Closes(text) == {i \in DOMAIN text : text[i].k = "}"}
Min(S) == CHOOSE x \in S : \A y \in S : x <= y
Max(S) == CHOOSE x \in S : \A y \in S : y <= x

re_search(text) ==
    IF Opens(text) = {} \/ Closes(text) = {} THEN <<>>
    ELSE IF Max(Closes(text)) < Min(Opens(text)) THEN <<>>
    ELSE SubSeq(text, Min(Opens(text)), Max(Closes(text)))

(***************************************************************************)
(* json.loads on a token sequence: a recursive-descent parser.  A parse    *)
(* step returns [ok, val, next]: whether a value was read at position i,   *)
(* the value, and the position after it.  json.loads raises                *)
(* JSONDecodeError when no value can be read or tokens remain after it.    *)
(***************************************************************************)
ParseFail == [ok |-> FALSE, val |-> PyNone, next |-> 0]
ParseOk(v, next) == [ok |-> TRUE, val |-> v, next |-> next]

RECURSIVE ParseValue(_, _), ParseMembers(_, _, _, _), ParseElements(_, _, _)

ParseValue(t, i) ==
    IF i > Len(t) THEN ParseFail
    ELSE CASE t[i].k = "str"   -> ParseOk(PyStr(t[i].s), i + 1)
           [] t[i].k = "int"   -> ParseOk(PyInt(t[i].n), i + 1)
           [] t[i].k = "float" ->
                ParseOk([jt |-> "float", n |-> t[i].n, s |-> t[i].s,
                         keys |-> <<>>, items |-> <<>>], i + 1)
           [] t[i].k = "true"  -> ParseOk(PyBool(TRUE), i + 1)
           [] t[i].k = "false" -> ParseOk(PyBool(FALSE), i + 1)
           [] t[i].k = "null"  -> ParseOk(PyNone, i + 1)
           [] t[i].k = "{" ->
                IF i + 1 <= Len(t) /\ t[i + 1].k = "}"
                THEN ParseOk(PyDict(<<>>, <<>>), i + 2)
                ELSE ParseMembers(t, i + 1, <<>>, <<>>)
           [] t[i].k = "[" ->
                IF i + 1 <= Len(t) /\ t[i + 1].k = "]"
                THEN ParseOk(PyList(<<>>), i + 2)
                ELSE ParseElements(t, i + 1, <<>>)
           [] OTHER -> ParseFail

\* at i: "key" : value, then "," and more members, or "}"
ParseMembers(t, i, keys, vals) ==
    IF i + 1 > Len(t) \/ t[i].k # "str" \/ t[i + 1].k # ":" THEN ParseFail
    ELSE LET r == ParseValue(t, i + 2) IN
         IF ~r.ok \/ r.next > Len(t) THEN ParseFail
         ELSE IF t[r.next].k = ","
              THEN ParseMembers(t, r.next + 1, Append(keys, t[i].s), Append(vals, r.val))
         ELSE IF t[r.next].k = "}"
              THEN ParseOk(PyDict(Append(keys, t[i].s), Append(vals, r.val)), r.next + 1)
         ELSE ParseFail

\* at i: value, then "," and more elements, or "]"
ParseElements(t, i, items) ==
    LET r == ParseValue(t, i) IN
    IF ~r.ok \/ r.next > Len(t) THEN ParseFail
    ELSE IF t[r.next].k = ","
         THEN ParseElements(t, r.next + 1, Append(items, r.val))
    ELSE IF t[r.next].k = "]"
         THEN ParseOk(PyList(Append(items, r.val)), r.next + 1)
    ELSE ParseFail

\* json.loads(text): [ok |-> FALSE] stands for JSONDecodeError
json_loads(t) ==
    LET r == ParseValue(t, 1) IN
    IF r.ok /\ r.next = Len(t) + 1 THEN r ELSE ParseFail

(***************************************************************************)
(* Article markup.  The body is seen as BeautifulSoup's                    *)
(* find_all("a", href=True) sees it: the href strings of its anchors, in   *)
(* document order; an href is a sequence of characters.                    *)
(***************************************************************************)
HREF_ABS    == <<"h","t","t","p","s",":","/","/","h","e","l","p",".","e","t","s","y",".","c","o","m","/","h","c","/","e","n","-","u","s","/","a","r","t","i","c","l","e","s","/","1","2","3">>
HREF_REL    == <<"/","h","c","/","f","r","-","f","r","/","a","r","t","i","c","l","e","s","/","4","5","6">>
HREF_NOLANG == <<"h","t","t","p","s",":","/","/","h","e","l","p",".","e","t","s","y",".","c","o","m","/","h","c","/","a","r","t","i","c","l","e","s","/","1","2","3">>
HREF_EXT    == <<"h","t","t","p","s",":","/","/","e","x","a","m","p","l","e",".","c","o","m","/","h","c","/","e","n","-","u","s","/","x">>

HREF_REDIR  == <<"h","t","t","p","s",":","/","/","e","x","a","m","p","l","e",".","c","o","m","/","?","u","=","h","t","t","p","s",":","/","/","h","e","l","p",".","e","t","s","y",".","c","o","m","/","h","c","/","e","n","-","u","s","/","x">>
HREF_BARE   == <<"/","h","c","/","e","n","-","u","s">>

Bodies == { <<>>, <<HREF_REL>>, <<HREF_REL, HREF_REL>>, <<HREF_ABS, HREF_NOLANG, HREF_EXT>> }

\* Article objects as ZendeskClient returns them (identity, title, URL,
\* audience segment, body)
Articles ==
    { [id |-> 100 + Len(b), title |-> "How to save", html_url |-> "https://help.etsy.com/hc/articles/100",
       audience |-> "Seller", body |-> b] : b \in Bodies }

LowerLetters ==
    {"a","b","c","d","e","f","g","h","i","j","k","l","m",
     "n","o","p","q","r","s","t","u","v","w","x","y","z"}

HELP_DOMAIN == <<"h","e","l","p",".","e","t","s","y",".","c","o","m">>
HC_PREFIX   == <<"/","h","c","/">>

\* pattern.search(href) for re.compile(r'/hc/[a-z]{2}-[a-z]{2}/')
LangTagSearch(href) ==
    \E i \in 0..(Len(href) - 10) :
        /\ \A j \in 1..4 : href[i + j] = HC_PREFIX[j]
        /\ href[i + 5] \in LowerLetters
        /\ href[i + 6] \in LowerLetters
        /\ href[i + 7] = "-"
        /\ href[i + 8] \in LowerLetters
        /\ href[i + 9] \in LowerLetters
        /\ href[i + 10] = "/"

IsHardcodedHref(href) ==
    /\ Contains(href, HELP_DOMAIN) \/ StartsWith(href, HC_PREFIX)
    /\ LangTagSearch(href)

\* _check_hardcoded_links: the flagged hrefs, appended in document order
RECURSIVE _check_hardcoded_links(_)
_check_hardcoded_links(body) ==
    IF body = <<>> THEN <<>>
    ELSE (IF IsHardcodedHref(Head(body)) THEN <<PyStr(Join(Head(body)))>> ELSE <<>>)
         \o _check_hardcoded_links(Tail(body))

(***************************************************************************)
(* Issue and AnalysisResult (content_analyzer.py dataclasses).  Every      *)
(* field holds a Python value: the code stores what the model sent.        *)
(***************************************************************************)
Issue(category, severity, description, location, recommendation) ==
    [category |-> category, severity |-> severity, description |-> description,
     location |-> location, recommendation |-> recommendation]

AnalysisResult(score, audience, mismatch, issues, web, app, links, flag, reason, raw) ==
    [overall_score |-> score, audience_detected |-> audience, audience_mismatch |-> mismatch,
     issues |-> issues, has_web_instructions |-> web, has_app_instructions |-> app,
     hardcoded_links |-> links, member_services_flag |-> flag, flag_reason |-> reason,
     raw_analysis |-> raw]

\* the text of the response as one Python str is not needed anywhere except
\* as raw_analysis, where the token sequence itself stands for it
RawText(text) == [jt |-> "str", n |-> 0, s |-> "", keys |-> <<>>, items |-> text]

\* the except branch, had it dropped the response text
FailureResult_NoRaw(text) ==
    AnalysisResult(PyInt(0), PyStr("Unknown"), PyBool(FALSE),
        << Issue(PyStr("technical"), PyStr("critical"),
                 PyStr("Failed to parse analysis response"), PyNone,
                 PyStr("Please try again")) >>,
        PyBool(FALSE), PyBool(FALSE), <<>>, PyBool(FALSE), PyNone, PyNone)

\* the value returned on the except branch of analyze
FailureResult(text) ==
    AnalysisResult(PyInt(0), PyStr("Unknown"), PyBool(FALSE),
        << Issue(PyStr("technical"), PyStr("critical"),
                 PyStr("Failed to parse analysis response"), PyNone,
                 PyStr("Please try again")) >>,
        PyBool(FALSE), PyBool(FALSE), <<>>, PyBool(FALSE), PyNone, RawText(text))

\* placeholder held where analyze returned nothing because it raised
NoAnalysis ==
    AnalysisResult(PyNone, PyNone, PyNone, <<>>, PyNone, PyNone, <<>>, PyNone, PyNone, PyNone)

\* "for issue_data in analysis.get('issues', [])": what the loop iterates
\* over; <<>> with an exception name when the value is not iterable
IterItems(v) ==
    CASE v.jt = "list" -> v.items
      [] v.jt = "dict" -> [i \in DOMAIN v.keys |-> PyStr(v.keys[i])]
      [] v.jt = "str"  -> IF v.s = "" THEN <<>> ELSE <<PyStr(v.s)>>  \* its characters, each a str
      [] OTHER -> <<>>

Iterable(v) == v.jt \in {"list", "dict", "str"}

\* the loop body, had it read category and severity without defaults
BuildIssue_NoDefault(issue_data) ==
    Issue(DictGet(issue_data, "category", PyNone),
          DictGet(issue_data, "severity", PyNone),
          DictGet(issue_data, "description", PyStr("")),
          DictGet(issue_data, "location", PyNone),
          DictGet(issue_data, "recommendation", PyNone))

\* one Issue(...) construction of the loop body
BuildIssue(issue_data) ==
    Issue(DictGet(issue_data, "category", PyStr("technical")),
          DictGet(issue_data, "severity", PyStr("warning")),
          DictGet(issue_data, "description", PyStr("")),
          DictGet(issue_data, "location", PyNone),
          DictGet(issue_data, "recommendation", PyNone))

\* list(set(xs)): the distinct members in an order the hash table decides
ListsOfSet(S) ==
    {f \in [1..Cardinality(S) -> S] : Range(f) = S}

\* the two lists merged, had set() been left out
AllHardcoded_NoSet(hardcoded_links, model_links) ==
    {hardcoded_links \o model_links}

\* list(set(hardcoded_links + analysis.get("hardcoded_links", []))): the
\* lists it may be
AllHardcoded(hardcoded_links, model_links) ==
    ListsOfSet(Range(hardcoded_links \o model_links))

HardcodedIssue(count) ==
    Issue(PyStr("technical"), PyStr("warning"),
          PyStr("Found " \o ToString(count) \o " link(s) with hardcoded language tags"),
          PyNone,
          PyStr("Remove /en-us/ or similar language tags from internal links for dynamic localization"))

Returned(path, result) == [path |-> path, raised |-> "", result |-> result]
Raised(path, exc)      == [path |-> path, raised |-> exc, result |-> NoAnalysis]

\* the part of analyze after the except clause ("Build result")
BuildResult(analysis, hardcoded_links) ==
    LET issues_value == DictGet(analysis, "issues", PyList(<<>>))
        issue_datas  == IterItems(issues_value)
        links_value  == DictGet(analysis, "hardcoded_links", PyList(<<>>))
    IN  IF ~Iterable(issues_value) THEN {Raised("success", "TypeError")}
        ELSE IF \E i \in DOMAIN issue_datas : issue_datas[i].jt # "dict"
             THEN {Raised("success", "AttributeError")}
        ELSE IF links_value.jt # "list" THEN {Raised("success", "TypeError")}
        ELSE IF \E i \in DOMAIN links_value.items : ~Hashable(links_value.items[i])
             THEN {Raised("success", "TypeError")}
        ELSE LET issues == [i \in DOMAIN issue_datas |-> BuildIssue(issue_datas[i])]
             IN  { Returned("success",
                     AnalysisResult(
                        DictGet(analysis, "overall_score", PyInt(0)),
                        DictGet(analysis, "audience_detected", PyStr("Unknown")),
                        DictGet(analysis, "audience_mismatch", PyBool(FALSE)),
                        IF all_hardcoded # <<>>
                            THEN Append(issues, HardcodedIssue(Len(all_hardcoded)))
                            ELSE issues,
                        DictGet(analysis, "has_web_instructions", PyBool(FALSE)),
                        DictGet(analysis, "has_app_instructions", PyBool(FALSE)),
                        all_hardcoded,
                        DictGet(analysis, "member_services_flag", PyBool(FALSE)),
                        DictGet(analysis, "flag_reason", PyNone),
                        DictGet(analysis, "summary", PyNone)))
                   : all_hardcoded \in AllHardcoded(hardcoded_links, links_value.items) }

\* ContentAnalyzer.analyze from the response text on: the set of outcomes
\* (several only through the order of list(set(...)))
\* analyze, had the degraded result carried the links of the pre-scan
analyze_FailureKeepsLinks(art, text) ==
    LET hardcoded_links == _check_hardcoded_links(art.body)
        json_match == re_search(text)
        parsed == json_loads(json_match)
        degraded == FailureResult(text)
    IN  IF json_match = <<>> \/ ~parsed.ok
        THEN {Returned("failure", [degraded EXCEPT !.hardcoded_links = hardcoded_links])}
        ELSE BuildResult(parsed.val, hardcoded_links)

analyze(art, text) ==
    LET hardcoded_links == _check_hardcoded_links(art.body)
        json_match == re_search(text)
        parsed == json_loads(json_match)
    IN  IF json_match = <<>> \/ ~parsed.ok
        THEN {Returned("failure", FailureResult(text))}
        ELSE BuildResult(parsed.val, hardcoded_links)

(***************************************************************************)
(* AuditReport and generate_report (report.py).                            *)
(***************************************************************************)
\* "score >= bound" of _get_quality_rating; Python orders int and bool with
\* int and raises TypeError for str, None, list and dict
Comparable(score) == score.jt \in {"int", "bool"}

\* the rating, had the bounds been exclusive
_get_quality_rating_Exclusive(score) ==
    IF score.n > 90 THEN "Excellent"
    ELSE IF score.n > 75 THEN "Good"
    ELSE IF score.n > 60 THEN "Needs Work"
    ELSE "Critical Issues"

_get_quality_rating(score) ==
    IF score.n >= 90 THEN "Excellent"
    ELSE IF score.n >= 75 THEN "Good"
    ELSE IF score.n >= 60 THEN "Needs Work"
    ELSE "Critical Issues"

\* [i for i in analysis.issues if i.category == tag]
SelectCategory(issues, tag) == SelectSeq(issues, LAMBDA i : i.category = PyStr(tag))

\* a float that is the quotient of two integers, in hundredths: 1.0 is
\* Rat(100, 1), the mean of 0.9 and 0.3 is Rat(120, 2)
Rat(num, den) == [num |-> num, den |-> den]

\* absent ui_report (None)
NoUIReport ==
    [present |-> FALSE, elements_found |-> <<>>, results |-> <<>>,
     overall_confidence |-> Rat(100, 1), needs_manual_review |-> FALSE, manual_review_items |-> <<>>]

AuditReport(art, now, analysis, rating, ui_verified, ui_total, ui_confidence, ui_manual) ==
    [article_id |-> art.id, article_title |-> art.title, article_url |-> art.html_url,
     audit_timestamp |-> now,
     overall_score |-> analysis.overall_score, quality_rating |-> rating,
     declared_audience |-> art.audience, detected_audience |-> analysis.audience_detected,
     audience_mismatch |-> analysis.audience_mismatch,
     has_web_instructions |-> analysis.has_web_instructions,
     has_app_instructions |-> analysis.has_app_instructions,
     actionable_issues |-> SelectCategory(analysis.issues, "actionable"),
     brief_issues      |-> SelectCategory(analysis.issues, "brief"),
     targeted_issues   |-> SelectCategory(analysis.issues, "targeted"),
     technical_issues  |-> SelectCategory(analysis.issues, "technical"),
     audience_issues   |-> SelectCategory(analysis.issues, "audience"),
     hardcoded_links |-> analysis.hardcoded_links,
     ui_elements_verified |-> ui_verified, ui_elements_total |-> ui_total,
     ui_confidence |-> ui_confidence, ui_manual_review_items |-> ui_manual,
     member_services_flag |-> analysis.member_services_flag,
     flag_reason |-> analysis.flag_reason,
     summary |-> analysis.raw_analysis]

\* the total, had it left out the audience bucket
total_issues_FourBuckets(r) ==
    Len(r.actionable_issues) + Len(r.brief_issues) + Len(r.targeted_issues)
        + Len(r.technical_issues)

\* AuditReport.total_issues
total_issues(r) ==
    Len(r.actionable_issues) + Len(r.brief_issues) + Len(r.targeted_issues)
        + Len(r.technical_issues) + Len(r.audience_issues)

\* placeholder held where generate_report returned nothing
NoReport == AuditReport([id |-> 0, title |-> "", html_url |-> "", audience |-> ""], 0,
                        NoAnalysis, "", 0, 0, Rat(0, 1), <<>>)

\* generate_report, had it counted every result as verified
generate_report_CountAll(art, analysis, ui, now) ==
    LET with_ui == ui.present
        ui_total    == IF with_ui THEN Len(ui.elements_found) ELSE 0
        ui_verified == IF with_ui THEN Len(ui.results) ELSE 0
        ui_conf     == IF with_ui THEN ui.overall_confidence ELSE Rat(100, 1)
        ui_manual   == IF with_ui THEN ui.manual_review_items ELSE <<>>
    IN  IF ~Comparable(analysis.overall_score)
        THEN [raised |-> "TypeError", result |-> NoReport]
        ELSE [raised |-> "",
              result |-> AuditReport(art, now, analysis,
                            _get_quality_rating(analysis.overall_score),
                            ui_verified, ui_total, ui_conf, ui_manual)]

\* generate_report(article, analysis, ui_report) at time now; ui is ui_report
generate_report(art, analysis, ui, now) ==
    LET with_ui == ui.present
        ui_total    == IF with_ui THEN Len(ui.elements_found) ELSE 0
        ui_verified == IF with_ui
                       THEN Len(SelectSeq(ui.results, LAMBDA r : r.status = "verified"))
                       ELSE 0
        ui_conf     == IF with_ui THEN ui.overall_confidence ELSE Rat(100, 1)
        ui_manual   == IF with_ui THEN ui.manual_review_items ELSE <<>>
    IN  IF ~Comparable(analysis.overall_score)
        THEN [raised |-> "TypeError", result |-> NoReport]
        ELSE [raised |-> "",
              result |-> AuditReport(art, now, analysis,
                            _get_quality_rating(analysis.overall_score),
                            ui_verified, ui_total, ui_conf, ui_manual)]

(***************************************************************************)
(* UI verification (ui_verifier.py).  The text of a UIElement is a         *)
(* sequence of characters; confidences are in hundredths (0.9 is 90).      *)
(***************************************************************************)
KNOWN_UI_ELEMENTS ==
    <<
       [key |-> <<"s","h","o","p"," ","m","a","n","a","g","e","r">>,
        status |-> "current", platform |-> "web", type |-> "navigation"],
       [key |-> <<"l","i","s","t","i","n","g","s">>,
        status |-> "current", platform |-> "both", type |-> "navigation"],
       [key |-> <<"o","r","d","e","r","s"," ","&"," ","s","h","i","p","p","i","n","g">>,
        status |-> "current", platform |-> "web", type |-> "navigation"],
       [key |-> <<"m","e","s","s","a","g","e","s">>,
        status |-> "current", platform |-> "both", type |-> "navigation"],
       [key |-> <<"m","a","r","k","e","t","i","n","g">>,
        status |-> "current", platform |-> "web", type |-> "navigation"],
       [key |-> <<"f","i","n","a","n","c","e","s">>,
        status |-> "current", platform |-> "web", type |-> "navigation"],
       [key |-> <<"s","e","t","t","i","n","g","s">>,
        status |-> "current", platform |-> "both", type |-> "navigation"],
       [key |-> <<"s","t","a","t","s">>,
        status |-> "current", platform |-> "both", type |-> "navigation"],
       [key |-> <<"a","d","d"," ","a"," ","l","i","s","t","i","n","g">>,
        status |-> "current", platform |-> "both", type |-> "button"],
       [key |-> <<"s","a","v","e">>,
        status |-> "current", platform |-> "both", type |-> "button"],
       [key |-> <<"p","u","b","l","i","s","h">>,
        status |-> "current", platform |-> "both", type |-> "button"],
       [key |-> <<"e","d","i","t">>,
        status |-> "current", platform |-> "both", type |-> "button"],
       [key |-> <<"d","e","l","e","t","e">>,
        status |-> "current", platform |-> "both", type |-> "button"],
       [key |-> <<"r","e","n","e","w">>,
        status |-> "current", platform |-> "both", type |-> "button"],
       [key |-> <<"d","e","a","c","t","i","v","a","t","e">>,
        status |-> "current", platform |-> "both", type |-> "button"],
       [key |-> <<"y","o","u","r"," ","a","c","c","o","u","n","t">>,
        status |-> "current", platform |-> "web", type |-> "navigation"],
       [key |-> <<"p","u","r","c","h","a","s","e","s"," ","a","n","d"," ","r","e","v","i","e","w","s">>,
        status |-> "current", platform |-> "web", type |-> "navigation"],
       [key |-> <<"a","c","c","o","u","n","t"," ","s","e","t","t","i","n","g","s">>,
        status |-> "current", platform |-> "web", type |-> "navigation"],
       [key |-> <<"f","a","v","o","r","i","t","e","s">>,
        status |-> "current", platform |-> "both", type |-> "navigation"],
       [key |-> <<"c","a","r","t">>,
        status |-> "current", platform |-> "both", type |-> "navigation"],
       [key |-> <<"y","o","u"," ","t","a","b">>,
        status |-> "current", platform |-> "app", type |-> "navigation"],
       [key |-> <<"s","h","o","p"," ","i","c","o","n">>,
        status |-> "current", platform |-> "app", type |-> "navigation"],
       [key |-> <<"t","h","r","e","e"," ","d","o","t","s"," ","m","e","n","u">>,
        status |-> "current", platform |-> "app", type |-> "menu"],
       [key |-> <<"h","a","m","b","u","r","g","e","r"," ","m","e","n","u">>,
        status |-> "current", platform |-> "app", type |-> "menu"]
    >>
OUTDATED_PATTERNS ==
    <<
       <<"c","l","i","c","k"," ","t","h","e"," ","g","e","a","r"," ","i","c","o","n">>,
       <<"g","o"," ","t","o"," ","y","o","u","r"," ","s","h","o","p">>,
       <<"d","i","r","e","c","t"," ","c","h","e","c","k","o","u","t">>,
       <<"a","l","c","h","e","m","y">>
    >>
UpperLetters == <<"A","B","C","D","E","F","G","H","I","J","K","L","M",
                  "N","O","P","Q","R","S","T","U","V","W","X","Y","Z">>
LowerOfUpper == <<"a","b","c","d","e","f","g","h","i","j","k","l","m",
                  "n","o","p","q","r","s","t","u","v","w","x","y","z">>
Whitespace == {" ", "\t", "\n", "\r"}

\* str.lower()
LowerChar(c) ==
    IF \E i \in DOMAIN UpperLetters : UpperLetters[i] = c
    THEN LowerOfUpper[CHOOSE i \in DOMAIN UpperLetters : UpperLetters[i] = c]
    ELSE c
Lower(text) == [i \in DOMAIN text |-> LowerChar(text[i])]

\* str.strip()
Strip(text) ==
    LET kept == {i \in DOMAIN text : text[i] \notin Whitespace}
    IN  IF kept = {} THEN <<>> ELSE SubSeq(text, Min(kept), Max(kept))

UIElement(text, element_type, context, platform) ==
    [text |-> text, element_type |-> element_type, context |-> context, platform |-> platform]

VerificationResult(elem, status, confidence, notes, source) ==
    [element |-> elem, status |-> status, confidence |-> confidence,
     notes |-> notes, source |-> source]

\* the None that _check_known_element returns when nothing matched
NoResult(elem) == VerificationResult(elem, "None", 0, "", "")

\* "Direct match": element_lower in KNOWN_UI_ELEMENTS
DirectMatch(elem, element_lower) ==
    IF \E i \in DOMAIN KNOWN_UI_ELEMENTS : KNOWN_UI_ELEMENTS[i].key = element_lower
    THEN LET info == KNOWN_UI_ELEMENTS[CHOOSE i \in DOMAIN KNOWN_UI_ELEMENTS :
                                          KNOWN_UI_ELEMENTS[i].key = element_lower]
         IN  VerificationResult(elem,
                IF info.status = "current" THEN "verified" ELSE "potentially_outdated",
                90, "Matched known UI element (" \o info.platform \o ")",
                "known_elements_db")
    ELSE NoResult(elem)

\* "Check for outdated patterns": the first pattern of the list found in
\* element_lower
OutdatedMatch(elem, element_lower) ==
    LET hits == {i \in DOMAIN OUTDATED_PATTERNS : Contains(element_lower, OUTDATED_PATTERNS[i])}
    IN  IF hits # {}
        THEN VerificationResult(elem, "potentially_outdated", 70,
                "Matches potentially outdated pattern: " \o Join(OUTDATED_PATTERNS[Min(hits)]),
                "outdated_patterns_db")
        ELSE NoResult(elem)

\* "Partial matches in navigation paths": the first key of the table, in
\* table order, that contains or is contained in element_lower
PartialMatch(elem, element_lower) ==
    LET hits == {i \in DOMAIN KNOWN_UI_ELEMENTS :
                    \/ Contains(element_lower, KNOWN_UI_ELEMENTS[i].key)
                    \/ Contains(KNOWN_UI_ELEMENTS[i].key, element_lower)}
    IN  IF hits # {}
        THEN VerificationResult(elem, "verified", 70,
                "Partial match to known element: " \o Join(KNOWN_UI_ELEMENTS[Min(hits)].key),
                "known_elements_db")
        ELSE NoResult(elem)

\* the check, had the text been lower-cased but not trimmed
_check_known_element_NoStrip(elem) ==
    LET element_lower == Lower(elem.text)
        direct   == DirectMatch(elem, element_lower)
        outdated == OutdatedMatch(elem, element_lower)
        partial  == PartialMatch(elem, element_lower)
    IN  IF direct.status # "None" THEN direct
        ELSE IF outdated.status # "None" THEN outdated
        ELSE partial

\* the check, had the partial match come before the outdated patterns
_check_known_element_PartialFirst(elem) ==
    LET element_lower == Strip(Lower(elem.text))
        direct   == DirectMatch(elem, element_lower)
        outdated == OutdatedMatch(elem, element_lower)
        partial  == PartialMatch(elem, element_lower)
    IN  IF direct.status # "None" THEN direct
        ELSE IF partial.status # "None" THEN partial
        ELSE outdated

_check_known_element(elem) ==
    LET element_lower == Strip(Lower(elem.text))
        direct   == DirectMatch(elem, element_lower)
        outdated == OutdatedMatch(elem, element_lower)
        partial  == PartialMatch(elem, element_lower)
    IN  IF direct.status # "None" THEN direct
        ELSE IF outdated.status # "None" THEN outdated
        ELSE partial

_verify_live(elem) ==
    VerificationResult(elem, "unverified", 30,
        "Could not verify against known elements - manual review recommended",
        "live_check")

\* the body of verify_article's loop that produces the result of one element
VerifyElement(elem) ==
    LET result == _check_known_element(elem)
    IN  IF result.status = "None" THEN _verify_live(elem) ELSE result

(***************************************************************************)
(* UI-element extraction (ui_verifier.py _extract_ui_elements).  The       *)
(* patterns are matched as re matches them: leftmost, greedy, one match    *)
(* after the other; re.IGNORECASE folds the case of every letter of the    *)
(* pattern, the class [A-Z] included.                                      *)
(***************************************************************************)
Least(a, b)    == IF a <= b THEN a ELSE b
Greatest(a, b) == IF a >= b THEN a ELSE b

\* one letter of the text against one lower-case letter of the pattern,
\* under re.IGNORECASE
Letters == Range(UpperLetters) \cup Range(LowerOfUpper)

\* what [A-Z] matches under re.IGNORECASE
ClassAZ(c) == c \in Letters

\* a literal of the pattern at position i of t
MatchLit(t, i, lit) ==
    /\ i >= 1
    /\ i + Len(lit) - 1 <= Len(t)
    /\ \A j \in 1..Len(lit) : LowerChar(t[i + j - 1]) = lit[j]

\* the position after the first alternative, in pattern order, that matches
\* at i; 0 when none does
RECURSIVE AltEnd(_, _, _)
AltEnd(t, i, alts) ==
    IF alts = <<>> THEN 0
    ELSE IF MatchLit(t, i, Head(alts)) THEN i + Len(Head(alts))
    ELSE AltEnd(t, i, Tail(alts))

\* \s*: the first position from i on that holds no white space
RECURSIVE SkipWs(_, _)
SkipWs(t, i) ==
    IF i <= Len(t) /\ t[i] \in Whitespace THEN SkipWs(t, i + 1) ELSE i

\* [^stops]{0,most} greedy: how many characters from i on it takes
RECURSIVE Run(_, _, _, _)
Run(t, i, stops, most) ==
    IF most = 0 \/ i > Len(t) \/ t[i] \in stops THEN 0
    ELSE 1 + Run(t, i + 1, stops, most - 1)

NavStops == {".", "!", "?", "\n"}

\* (?:\s*>\s*[A-Z][^.!?\n>]{2,30}) at q: the position after it, 0 for no match
Segment(t, q) ==
    LET a == SkipWs(t, q)
        b == SkipWs(t, a + 1)
        m == Run(t, b + 1, NavStops \cup {">"}, 30)
    IN  IF a <= Len(t) /\ t[a] = ">" /\ b <= Len(t) /\ ClassAZ(t[b]) /\ m >= 2
        THEN b + 1 + m ELSE 0

\* (...)* greedy from q on: the position after the last repetition
RECURSIVE Segments(_, _)
Segments(t, q) == IF Segment(t, q) = 0 THEN q ELSE Segments(t, Segment(t, q))

NoMatch == [ok |-> FALSE, start |-> 0, stop |-> 0, from |-> 0, upto |-> 0]
\* a match: start and stop of the whole match, from and upto of group 1
\* (stop and upto exclusive)
Match(start, stop, from, upto) ==
    [ok |-> TRUE, start |-> start, stop |-> stop, from |-> from, upto |-> upto]

NavVerbs == << <<"g","o"," ","t","o">>, <<"n","a","v","i","g","a","t","e"," ","t","o">>, <<"s","e","l","e","c","t">>, <<"c","l","i","c","k">>, <<"t","a","p">>, <<"o","p","e","n">> >>
NavPrepositions == << <<"f","r","o","m">>, <<"i","n">>, <<"u","n","d","e","r">> >>
THE == <<"t","h","e">>

\* nav_patterns[0] at i
Nav1At(t, i) ==
    LET e == AltEnd(t, i, NavVerbs)
        g == SkipWs(t, e)
        k == Run(t, g + 1, NavStops, 50)
    IN  IF e > 0 /\ g > e /\ g <= Len(t) /\ ClassAZ(t[g]) /\ k >= 5
        THEN Match(i, Segments(t, g + 1 + k), g, Segments(t, g + 1 + k))
        ELSE NoMatch

\* [A-Z][^.!?\n]{3,30}(segment)+ at g: the first part gives back
\* characters until a segment follows
Nav2Body(t, i, g) ==
    IF g <= Len(t) /\ ClassAZ(t[g])
    THEN LET most == Run(t, g + 1, NavStops, 30)
             fits == {k \in 3..most : Segment(t, g + 1 + k) # 0}
         IN  IF fits = {} THEN NoMatch
             ELSE Match(i, Segments(t, g + 1 + Max(fits)), g,
                        Segments(t, g + 1 + Max(fits)))
    ELSE NoMatch

\* nav_patterns[1] at i: "the" is tried first, then left out
Nav2At(t, i) ==
    LET e == AltEnd(t, i, NavPrepositions)
        g == SkipWs(t, e)
        h == SkipWs(t, g + 3)
    IN  IF e = 0 \/ g = e THEN NoMatch
        ELSE IF MatchLit(t, g, THE) /\ h > g + 3 /\ Nav2Body(t, i, h).ok
             THEN Nav2Body(t, i, h)
        ELSE Nav2Body(t, i, g)

ButtonVerbs == << <<"c","l","i","c","k">>, <<"t","a","p">>, <<"s","e","l","e","c","t">>, <<"p","r","e","s","s">> >>
DQ  == "\""
LDQ == "LDQ"    \* the character U+201C
RDQ == "RDQ"    \* the character U+201D
BoldOpen  == << <<"<","s","t","r","o","n","g",">">>, <<"<","b",">">> >>
BoldClose == << <<"<","/","s","t","r","o","n","g",">">>, <<"<","/","b",">">> >>
STARS == <<"*", "*">>

\* what follows the verb of a button pattern, at g
ButtonBody(kind, t, i, g) ==
    CASE kind = "quote" ->
            LET n == Run(t, g + 1, {DQ, RDQ}, Len(t))
            IN  IF g <= Len(t) /\ t[g] \in {DQ, LDQ} /\ n >= 1 /\ g + 1 + n <= Len(t)
                THEN Match(i, g + n + 2, g + 1, g + 1 + n) ELSE NoMatch
      [] kind = "bold" ->
            LET o == AltEnd(t, g, BoldOpen)
                n == Run(t, o, {"<"}, Len(t))
                c == AltEnd(t, o + n, BoldClose)
            IN  IF o > 0 /\ n >= 1 /\ c > 0 THEN Match(i, c, o, o + n) ELSE NoMatch
      [] kind = "stars" ->
            LET n == Run(t, g + 2, {"*"}, Len(t))
            IN  IF MatchLit(t, g, STARS) /\ n >= 1 /\ MatchLit(t, g + 2 + n, STARS)
                THEN Match(i, g + n + 4, g + 2, g + 2 + n) ELSE NoMatch

\* button_patterns at i: "the" is tried first, then left out
ButtonAt(kind, t, i) ==
    LET e == AltEnd(t, i, ButtonVerbs)
        g == SkipWs(t, e)
        h == SkipWs(t, g + 3)
    IN  IF e = 0 \/ g = e THEN NoMatch
        ELSE IF MatchLit(t, g, THE) /\ h > g + 3 /\ ButtonBody(kind, t, i, h).ok
             THEN ButtonBody(kind, t, i, h)
        ELSE ButtonBody(kind, t, i, g)

PatternAt(kind, t, i) ==
    CASE kind = "nav1" -> Nav1At(t, i)
      [] kind = "nav2" -> Nav2At(t, i)
      [] OTHER -> ButtonAt(kind, t, i)

\* re.finditer(pattern, t, re.IGNORECASE) from i on
RECURSIVE finditer(_, _, _)
finditer(kind, t, i) ==
    LET starts == {j \in i..Len(t) : PatternAt(kind, t, j).ok}
        m == PatternAt(kind, t, Min(starts))
    IN  IF starts = {} THEN <<>> ELSE <<m>> \o finditer(kind, t, m.stop)

\* t[max(0, match.start() - 50) : min(len(t), match.end() + 50)]
ContextOf(t, m) == SubSeq(t, Greatest(1, m.start - 50), Least(Len(t), m.stop - 1 + 50))

PlatformOf(context) ==
    LET context_lower == Lower(context)
    IN  IF Contains(context_lower, <<"a","p","p">>) \/ Contains(context_lower, <<"m","o","b","i","l","e">>)
        THEN "app"
        ELSE IF \/ Contains(context_lower, <<"w","e","b","s","i","t","e">>)
                \/ Contains(context_lower, <<"b","r","o","w","s","e","r">>)
                \/ Contains(context_lower, <<"e","t","s","y",".","c","o","m">>)
        THEN "web"
        ELSE "unknown"

NavElement(t, m) ==
    UIElement(Strip(SubSeq(t, m.from, m.upto - 1)), "navigation",
              ContextOf(t, m), PlatformOf(ContextOf(t, m)))

\* the button of a match, or nothing when its text is too short or too long
ButtonElement(t, m) ==
    LET button_text == Strip(SubSeq(t, m.from, m.upto - 1))
    IN  IF Len(button_text) > 2 /\ Len(button_text) < 50
        THEN <<UIElement(button_text, "button", ContextOf(t, m), "unknown")>>
        ELSE <<>>

RECURSIVE Buttons(_, _)
Buttons(t, ms) ==
    IF ms = <<>> THEN <<>> ELSE ButtonElement(t, Head(ms)) \o Buttons(t, Tail(ms))

\* soup.get_text(separator=" ", strip=True): the texts between the tags,
\* stripped, the empty ones dropped, joined by one blank; a tag opens with
\* "<" and a letter or "/"
RECURSIVE TagFreeText(_, _)
TagFreeText(html, i) ==
    LET opens == {j \in i..(Len(html) - 1) :
                     /\ html[j] = "<"
                     /\ html[j + 1] \in Letters \cup {"/"}
                     /\ \E k \in (j + 1)..Len(html) : html[k] = ">"}
        open  == Min(opens)
        close == Min({k \in (open + 1)..Len(html) : html[k] = ">"})
        done  == Strip(SubSeq(html, i, open - 1))
        rest  == TagFreeText(html, close + 1)
    IN  IF opens = {} THEN Strip(SubSeq(html, i, Len(html)))
        ELSE IF done = <<>> THEN rest
        ELSE IF rest = <<>> THEN done
        ELSE done \o <<" ">> \o rest

\* the extraction, had it not known the <strong> and <b> pattern
_extract_ui_elements_NoBold(html) ==
    LET text == TagFreeText(html, 1)
        nav1 == finditer("nav1", text, 1)
        nav2 == finditer("nav2", text, 1)
    IN  [i \in DOMAIN nav1 |-> NavElement(text, nav1[i])]
        \o [i \in DOMAIN nav2 |-> NavElement(text, nav2[i])]
        \o Buttons(html, finditer("quote", html, 1))
        \o Buttons(html, finditer("stars", html, 1))

_extract_ui_elements(html) ==
    LET text == TagFreeText(html, 1)
        nav1 == finditer("nav1", text, 1)
        nav2 == finditer("nav2", text, 1)
    IN  [i \in DOMAIN nav1 |-> NavElement(text, nav1[i])]
        \o [i \in DOMAIN nav2 |-> NavElement(text, nav2[i])]
        \o Buttons(html, finditer("quote", html, 1))
        \o Buttons(html, finditer("bold", html, 1))
        \o Buttons(html, finditer("stars", html, 1))

\* str.title() of an element type
Title(element_type) ==
    CASE element_type = "button"     -> "Button"
      [] element_type = "navigation" -> "Navigation"
      [] element_type = "menu"       -> "Menu"
      [] element_type = "link"       -> "Link"
      [] element_type = "tab"        -> "Tab"
      [] OTHER -> element_type

\* the manual-review note of one result
ReviewNote(result) ==
    Title(result.element.element_type) \o ": '" \o Join(result.element.text)
        \o "' - " \o result.notes

\* sum(r.confidence for r in results), in hundredths
RECURSIVE SumConfidence(_)
SumConfidence(rs) ==
    IF rs = <<>> THEN 0
    ELSE Head(rs).confidence + SumConfidence(Tail(rs))

\* the aggregate with the dataclass default 0.0 kept for no elements
MeanConfidence_EmptyZero(rs) ==
    IF rs # <<>> THEN Rat(SumConfidence(rs), Len(rs))
    ELSE Rat(0, 1)

\* sum(...) / len(results) if results else 1.0
MeanConfidence(rs) ==
    IF rs # <<>> THEN Rat(SumConfidence(rs), Len(rs))
    ELSE Rat(100, 1)

\* a review filter that lets potentially outdated elements pass
NeedsReview_UnverifiedOnly(result) == result.status \in {"unverified"}

\* result.status in ["unverified", "potentially_outdated"]
NeedsReview(result) == result.status \in {"unverified", "potentially_outdated"}

\* verify_article from the extracted elements on
\* verify_article, had it kept a result only for the elements it knows
verify_article_KnownOnly(elems) ==
    LET checked == [i \in DOMAIN elems |-> VerifyElement(elems[i])]
        known   == SelectSeq(checked, LAMBDA r : r.source = "known_elements_db")
        flagged == SelectSeq(known, NeedsReview)
        manual_review_items == [i \in DOMAIN flagged |-> ReviewNote(flagged[i])]
    IN  [present |-> TRUE,
         elements_found |-> elems,
         results |-> known,
         overall_confidence |-> MeanConfidence(known),
         needs_manual_review |-> Len(manual_review_items) > 0,
         manual_review_items |-> manual_review_items]

verify_article(elems) ==
    LET checked == [i \in DOMAIN elems |-> VerifyElement(elems[i])]
        flagged == SelectSeq(checked, NeedsReview)
        manual_review_items == [i \in DOMAIN flagged |-> ReviewNote(flagged[i])]
    IN  [present |-> TRUE,
         elements_found |-> elems,
         results |-> checked,
         overall_confidence |-> MeanConfidence(checked),
         needs_manual_review |-> Len(manual_review_items) > 0,
         manual_review_items |-> manual_review_items]

(***************************************************************************)
(* What the analysis collaborator may send.  The object follows the        *)
(* response format of AUDIT_PROMPT, with keys left out and with values of  *)
(* shapes the prompt did not ask for; it is written out as tokens, may be  *)
(* wrapped in prose, and may be cut short.                                 *)
(***************************************************************************)
IssueFull == PyDict(<<"category", "severity", "description", "location", "recommendation">>,
                    <<PyStr("brief"), PyStr("critical"), PyStr("Too long"),
                      PyStr("Step 2"), PyStr("Shorten")>>)
IssueBare == PyDict(<<>>, <<>>)
IssueOdd  == PyDict(<<"category", "description">>, <<PyStr("style"), PyStr("Odd tone")>>)

LinkRel   == PyStr(Join(HREF_REL))
LinkOther == PyStr("/hc/de-de/articles/789")

Field(key, val) == [key |-> key, val |-> val]

Pool ==
    << Field("overall_score", PyInt(85)),
       Field("overall_score", PyInt(150)),
       Field("overall_score", PyStr("high")),
       Field("audience_detected", PyStr("Seller")),
       Field("audience_mismatch", PyBool(TRUE)),
       Field("has_web_instructions", PyBool(TRUE)),
       Field("has_app_instructions", PyBool(TRUE)),
       Field("issues", PyList(<<>>)),
       Field("issues", PyList(<<IssueFull, IssueBare>>)),
       Field("issues", PyList(<<IssueOdd>>)),
       Field("issues", PyInt(5)),
       Field("issues", PyList(<<PyInt(7)>>)),
       Field("hardcoded_links", PyList(<<LinkRel>>)),
       Field("hardcoded_links", PyList(<<LinkOther, LinkRel>>)),
       Field("hardcoded_links", PyStr("none")),
       Field("hardcoded_links", PyList(<<PyList(<<LinkRel>>)>>)),
       Field("member_services_flag", PyBool(TRUE)),
       Field("flag_reason", PyStr("Check policy")),
       Field("summary", PyStr("Clear.")) >>

\* the choices of at most k fields of the pool, no key twice, in pool order
RECURSIVE FieldChoices(_)
FieldChoices(k) ==
    IF k = 0 THEN {<<>>}
    ELSE LET prev == FieldChoices(k - 1)
             longest == {c \in prev : Len(c) = k - 1}
         IN  prev \cup UNION {
                 {Append(c, i) : i \in {j \in DOMAIN Pool :
                        /\ c # <<>> => j > c[Len(c)]
                        /\ \A m \in DOMAIN c : Pool[c[m]].key # Pool[j].key}}
                 : c \in longest }

ObjectOf(choice) ==
    PyDict([i \in DOMAIN choice |-> Pool[choice[i]].key],
           [i \in DOMAIN choice |-> Pool[choice[i]].val])

\* the JSON text of a value, as tokens
RECURSIVE Dumps(_), DumpItems(_), DumpMembers(_, _)
Dumps(v) ==
    CASE v.jt = "int"  -> <<TokInt(v.n)>>
      [] v.jt = "float" -> <<TokFloat(v.n, v.s)>>
      [] v.jt = "str"  -> <<TokStr(v.s)>>
      [] v.jt = "bool" -> <<Tok(IF v.n = 1 THEN "true" ELSE "false")>>
      [] v.jt = "None" -> <<Tok("null")>>
      [] v.jt = "list" -> <<Tok("[")>> \o DumpItems(v.items) \o <<Tok("]")>>
      [] v.jt = "dict" -> <<Tok("{")>> \o DumpMembers(v.keys, v.items) \o <<Tok("}")>>
DumpItems(items) ==
    IF items = <<>> THEN <<>>
    ELSE Dumps(Head(items))
         \o (IF Len(items) > 1 THEN <<Tok(",")>> ELSE <<>>) \o DumpItems(Tail(items))
DumpMembers(keys, items) ==
    IF keys = <<>> THEN <<>>
    ELSE <<TokStr(Head(keys)), Tok(":")>> \o Dumps(Head(items))
         \o (IF Len(keys) > 1 THEN <<Tok(",")>> ELSE <<>>)
         \o DumpMembers(Tail(keys), Tail(items))

Prefixes == { <<>>, <<TokWord("Here"), TokWord("is"), TokWord("my"), TokWord("analysis")>> }
Suffixes == { <<>>,
              <<TokWord("I"), TokWord("cannot"), TokWord("process"), TokWord("this")>>,
              <<TokWord("see"), Tok("{"), TokWord("note"), Tok("}")>> }

Sent(kind, payload, prefix, suffix, cut) ==
    [kind |-> kind, payload |-> payload, prefix |-> prefix, suffix |-> suffix, cut |-> cut]

\* kind "json": prose, the object (less its last cut tokens), prose;
\* kind "prose": no object at all
Sents ==
    { Sent("json", ObjectOf(c), p, x, cut) :
        c \in FieldChoices(MaxKeys), p \in Prefixes, x \in Suffixes, cut \in 0..MaxCut }
    \cup { Sent("prose", PyDict(<<>>, <<>>), p, x, 0) : p \in Prefixes, x \in Suffixes }

ResponseOf(m) ==
    IF m.kind = "json"
    THEN LET body == Dumps(m.payload)
         IN  m.prefix \o SubSeq(body, 1, Len(body) - m.cut) \o m.suffix
    ELSE m.prefix \o m.suffix

(***************************************************************************)
(* Element texts put to the classifier: phrases joined by single spaces,   *)
(* optionally with surrounding blanks.                                     *)
(***************************************************************************)
Vocabulary ==
    {
       <<"S","a","v","e">>,
       <<"S","h","o","p"," ","M","a","n","a","g","e","r">>,
       <<"G","o"," ","t","o"," ","y","o","u","r"," ","s","h","o","p">>,
       <<"a","l","c","h","e","m","y">>,
       <<"a","r","t">>,
       <<"F","o","o">>,
       <<"S","e","t","t","i","n","g","s">>,
       <<"D","i","r","e","c","t"," ","C","h","e","c","k","o","u","t">>,
       <<"C","l","i","c","k"," ","t","h","e"," ","g","e","a","r"," ","i","c","o","n">>,
       <<"s","t","a","t","s">>
    }

RECURSIVE Phrases(_)
Phrases(k) ==
    IF k = 0 THEN {<<>>}
    ELSE LET prev == Phrases(k - 1)
         IN  prev \cup {IF p = <<>> THEN w ELSE p \o <<" ">> \o w : p \in prev, w \in Vocabulary}

ElementTexts ==
    Phrases(MaxWords) \cup {<<" ">> \o p \o <<" ">> : p \in Phrases(MaxWords)}

Elements == {UIElement(t, "button", t, "unknown") : t \in ElementTexts}

(***************************************************************************)
(* The structured form of a report (report.py to_dict, to_json).           *)
(***************************************************************************)
\* bool(v) of a Python value
Truthy(v) ==
    CASE v.jt = "None" -> FALSE
      [] v.jt \in {"int", "bool", "float"} -> v.n # 0
      [] v.jt = "str"  -> v.s # "" \/ v.items # <<>>
      [] v.jt = "list" -> v.items # <<>>
      [] v.jt = "dict" -> v.keys # <<>>

\* the five buckets in the order the properties add them up
all_issues(r) ==
    r.actionable_issues \o r.brief_issues \o r.targeted_issues
        \o r.technical_issues \o r.audience_issues

\* [i for i in all_issues if i.severity == tag]
SelectSeverity(r, tag) == SelectSeq(all_issues(r), LAMBDA i : i.severity = PyStr(tag))

critical_issues(r) == SelectSeverity(r, "critical")
warnings(r)        == SelectSeverity(r, "warning")
suggestions(r)     == SelectSeverity(r, "suggestion")

_issue_to_dict(issue) ==
    PyDict(<<"severity", "description", "location", "recommendation">>,
           <<issue.severity, issue.description, issue.location, issue.recommendation>>)

IssueDicts(issues) == PyList([i \in DOMAIN issues |-> _issue_to_dict(issues[i])])

\* the isoformat() text of a timestamp
IsoFormat(now) == "2024-01-0" \o ToString(now) \o "T00:00:00"

\* a list of str of the program as a Python value
StrValues(strs) == PyList([i \in DOMAIN strs |-> PyStr(strs[i])])

\* AuditReport.to_dict
to_dict(r) ==
    PyDict(
      <<"article_id", "article_title", "article_url", "audit_timestamp",
        "overall_score", "quality_rating", "declared_audience", "detected_audience",
        "audience_mismatch", "has_web_instructions", "has_app_instructions",
        "total_issues", "critical_count", "warning_count", "suggestion_count",
        "issues", "hardcoded_links", "ui_verification",
        "member_services_flag", "flag_reason", "summary">>,
      <<PyInt(r.article_id), PyStr(r.article_title), PyStr(r.article_url),
        PyStr(IsoFormat(r.audit_timestamp)),
        r.overall_score, PyStr(r.quality_rating), PyStr(r.declared_audience),
        r.detected_audience,
        r.audience_mismatch, r.has_web_instructions, r.has_app_instructions,
        PyInt(total_issues(r)), PyInt(Len(critical_issues(r))),
        PyInt(Len(warnings(r))), PyInt(Len(suggestions(r))),
        PyDict(<<"actionable", "brief", "targeted", "technical", "audience">>,
               <<IssueDicts(r.actionable_issues), IssueDicts(r.brief_issues),
                 IssueDicts(r.targeted_issues), IssueDicts(r.technical_issues),
                 IssueDicts(r.audience_issues)>>),
        PyList(r.hardcoded_links),
        PyDict(<<"elements_verified", "elements_total", "confidence", "manual_review_items">>,
               <<PyInt(r.ui_elements_verified), PyInt(r.ui_elements_total),
                 PyFloat(r.ui_confidence.num, r.ui_confidence.den),
                 StrValues(r.ui_manual_review_items)>>),
        r.member_services_flag, r.flag_reason, r.summary>>)

\* the text of a str value: the response text kept as raw_analysis is
\* spelled token by token
RECURSIVE Spell(_)
Spell(toks) ==
    IF toks = <<>> THEN ""
    ELSE (CASE Head(toks).k \in {"str", "word"} -> Head(toks).s
            [] Head(toks).k \in {"int", "float"} -> ToString(Head(toks).n)
            [] OTHER -> Head(toks).k)
         \o (IF Len(toks) > 1 THEN " " ELSE "") \o Spell(Tail(toks))

\* the values of a dict as json.dumps meets them: every str is plain text
RECURSIVE Plain(_)
Plain(v) ==
    CASE v.jt = "str" /\ v.items # <<>> -> PyStr(Spell(v.items))
      [] v.jt \in {"list", "dict"} ->
            [v EXCEPT !.items = [i \in DOMAIN v.items |-> Plain(v.items[i])]]
      [] OTHER -> v

\* AuditReport.to_json: json.dumps(self.to_dict(), indent=indent); the
\* indentation is white space between tokens
to_json(r) == Dumps(Plain(to_dict(r)))

(***************************************************************************)
(* The Markdown form of a report (report.py to_markdown).  The document is *)
(* the list of lines that to_markdown joins; a line is its heading level   *)
(* (0 for a line that is no heading) and its text after the "#" marks.     *)
(* Emoji are spelled by name in brackets, a backtick as a quote.           *)
(***************************************************************************)
Line(level, text) == [level |-> level, text |-> text]
Blank == Line(0, "")

\* repr(v) and str(v) of a Python value, as an f-string formats it
RECURSIVE Repr(_), ReprItems(_), ReprMembers(_, _)
Repr(v) ==
    CASE v.jt = "None"  -> "None"
      [] v.jt = "int"   -> ToString(v.n)
      [] v.jt = "float" -> ToString(v.n) \o "/" \o v.s
      [] v.jt = "bool"  -> IF v.n = 1 THEN "True" ELSE "False"
      [] v.jt = "str"   -> "'" \o (IF v.items # <<>> THEN Spell(v.items) ELSE v.s) \o "'"
      [] v.jt = "list"  -> "[" \o ReprItems(v.items) \o "]"
      [] v.jt = "dict"  -> "{" \o ReprMembers(v.keys, v.items) \o "}"
ReprItems(items) ==
    IF items = <<>> THEN ""
    ELSE Repr(Head(items)) \o (IF Len(items) > 1 THEN ", " ELSE "") \o ReprItems(Tail(items))
ReprMembers(keys, items) ==
    IF keys = <<>> THEN ""
    ELSE "'" \o Head(keys) \o "': " \o Repr(Head(items))
         \o (IF Len(keys) > 1 THEN ", " ELSE "") \o ReprMembers(Tail(keys), Tail(items))

Str(v) ==
    IF v.jt = "str" THEN (IF v.items # <<>> THEN Spell(v.items) ELSE v.s) ELSE Repr(v)

\* f"{x:.0%}" of a quotient of hundredths: the nearest integer, ties to even
Percent(c) ==
    LET whole == c.num \div c.den
        rest  == c.num % c.den
    IN  ToString(IF 2 * rest > c.den \/ (2 * rest = c.den /\ whole % 2 = 1)
                 THEN whole + 1 ELSE whole) \o "%"

\* _format_issue_md, one line of the document per line of its text; the
\* dict lookup raises TypeError for a severity that is not hashable
FormatRaises(issue) == ~Hashable(issue.severity)

_format_issue_md(issue) ==
    LET severity_icon ==
            CASE issue.severity = PyStr("critical")   -> "[red]"
              [] issue.severity = PyStr("warning")    -> "[yellow]"
              [] issue.severity = PyStr("suggestion") -> "[blue]"
              [] OTHER -> "[white]"
    IN  <<Line(0, "- " \o severity_icon \o " **" \o Str(issue.description) \o "**")>>
        \o (IF Truthy(issue.location)
            THEN <<Line(0, "  - Location: " \o Str(issue.location))>> ELSE <<>>)
        \o (IF Truthy(issue.recommendation)
            THEN <<Line(0, "  - Recommendation: " \o Str(issue.recommendation))>> ELSE <<>>)

RECURSIVE FormatIssues(_)
FormatIssues(issues) ==
    IF issues = <<>> THEN <<>>
    ELSE _format_issue_md(Head(issues)) \o FormatIssues(Tail(issues))

HeaderBlock(r) ==
    << Line(1, "Audit Report: " \o r.article_title), Blank,
       Line(0, "**Article ID:** " \o ToString(r.article_id)),
       Line(0, "**URL:** " \o r.article_url),
       Line(0, "**Audit Date:** " \o IsoFormat(r.audit_timestamp)), Blank >>

OverallBlock(r) ==
    LET score_emoji == IF r.overall_score.n >= 80 THEN "[green]"
                       ELSE IF r.overall_score.n >= 60 THEN "[yellow]" ELSE "[red]"
    IN  << Line(2, "Overall Assessment"), Blank,
           Line(0, "**Score:** " \o score_emoji \o " " \o Str(r.overall_score)
                       \o "/100 (" \o r.quality_rating \o ")"), Blank >>
        \o (IF Truthy(r.summary) THEN <<Line(0, "_" \o Str(r.summary) \o "_"), Blank>>
            ELSE <<>>)

AudienceBlock(r) ==
    << Line(2, "Audience"), Blank,
       Line(0, "- **Declared:** " \o r.declared_audience),
       Line(0, "- **Detected:** " \o Str(r.detected_audience) \o " "
                   \o (IF Truthy(r.audience_mismatch) THEN "[warning] MISMATCH" ELSE "[check]")),
       Blank >>

CompletenessBlock(r) ==
    << Line(2, "Content Completeness"), Blank,
       Line(0, "- Web instructions: "
                   \o (IF Truthy(r.has_web_instructions) THEN "[check]" ELSE "[cross]")),
       Line(0, "- App instructions: "
                   \o (IF Truthy(r.has_app_instructions) THEN "[check]" ELSE "[cross]")),
       Blank >>

IssuesSummaryBlock(r) ==
    << Line(2, "Issues Summary"), Blank,
       Line(0, "- [red] Critical: " \o ToString(Len(critical_issues(r)))),
       Line(0, "- [yellow] Warnings: " \o ToString(Len(warnings(r)))),
       Line(0, "- [blue] Suggestions: " \o ToString(Len(suggestions(r)))),
       Blank >>

\* "if self.<bucket>: ..." for one bucket
CategoryBlock(heading, issues) ==
    IF issues # <<>>
    THEN <<Line(3, heading), Blank>> \o FormatIssues(issues) \o <<Blank>>
    ELSE <<>>

HardcodedLinksBlock(r) ==
    IF r.hardcoded_links # <<>>
    THEN <<Line(2, "Hardcoded Links (Need Dynamic Localization)"), Blank>>
         \o [i \in DOMAIN r.hardcoded_links |-> Line(0, "- '" \o Str(r.hardcoded_links[i]) \o "'")]
         \o <<Blank>>
    ELSE <<>>

\* the UI block, had it been emitted for every report
UIBlock_Always(r) ==
    << Line(2, "UI Verification"), Blank,
       Line(0, "- Elements found: " \o ToString(r.ui_elements_total)),
       Line(0, "- Confidence: " \o Percent(r.ui_confidence)), Blank >>

UIBlock(r) ==
    IF r.ui_elements_total > 0
    THEN << Line(2, "UI Verification"), Blank,
            Line(0, "- Elements found: " \o ToString(r.ui_elements_total)),
            Line(0, "- Confidence: " \o Percent(r.ui_confidence)), Blank >>
         \o (IF r.ui_manual_review_items # <<>>
             THEN <<Line(0, "**Items requiring manual review:**")>>
                  \o [i \in DOMAIN r.ui_manual_review_items |->
                         Line(0, "- " \o r.ui_manual_review_items[i])]
                  \o <<Blank>>
             ELSE <<>>)
    ELSE <<>>

EscalationBlock(r) ==
    IF Truthy(r.member_services_flag)
    THEN << Line(2, "[warning] Member Services Flag"), Blank,
            Line(0, "**This article requires human verification.**") >>
         \o (IF Truthy(r.flag_reason)
             THEN <<Line(0, "Reason: " \o Str(r.flag_reason))>> ELSE <<>>)
         \o <<Blank>>
    ELSE <<>>

\* AuditReport.to_markdown: [raised, lines]
to_markdown(r) ==
    IF \E i \in DOMAIN all_issues(r) : FormatRaises(all_issues(r)[i])
    THEN [raised |-> "TypeError", lines |-> <<>>]
    ELSE [raised |-> "",
          lines |-> HeaderBlock(r) \o OverallBlock(r) \o AudienceBlock(r)
                    \o CompletenessBlock(r) \o IssuesSummaryBlock(r)
                    \o CategoryBlock("Actionable Issues", r.actionable_issues)
                    \o CategoryBlock("Brief Issues", r.brief_issues)
                    \o CategoryBlock("Targeted Issues", r.targeted_issues)
                    \o CategoryBlock("Technical Issues", r.technical_issues)
                    \o CategoryBlock("Audience Issues", r.audience_issues)
                    \o HardcodedLinksBlock(r) \o UIBlock(r) \o EscalationBlock(r)]

(***************************************************************************)
(* Text extraction (content_analyzer.py _extract_text).  The markup is the *)
(* list of its text nodes in document order, each with the tag of its      *)
(* parent; a text is a sequence of characters.                             *)
(***************************************************************************)
NL == "\n"

Node(tag, text) == [tag |-> tag, text |-> text]

\* soup.get_text(separator="\n", strip=True) after script and style were
\* decomposed: every text is stripped, empty ones are dropped, the others
\* are joined by one newline
RECURSIVE get_text(_)
get_text(nodes) ==
    IF nodes = <<>> THEN <<>>
    ELSE LET first == Head(nodes)
             piece == IF first.tag \in {"script", "style"} THEN <<>> ELSE Strip(first.text)
             rest  == get_text(Tail(nodes))
         IN  IF piece = <<>> THEN rest
             ELSE IF rest = <<>> THEN piece
             ELSE piece \o <<NL>> \o rest

\* the length of the run of newlines at the head of a text
RECURSIVE NewlineRun(_)
NewlineRun(text) ==
    IF text = <<>> \/ Head(text) # NL THEN 0 ELSE 1 + NewlineRun(Tail(text))

\* the substitution, had its pattern been \n{4,}
RECURSIVE collapse_newlines_FourOrMore(_)
collapse_newlines_FourOrMore(text) ==
    IF text = <<>> THEN <<>>
    ELSE LET run == NewlineRun(text)
         IN  IF run = 0 THEN <<Head(text)>> \o collapse_newlines_FourOrMore(Tail(text))
             ELSE (IF run >= 4 THEN <<NL, NL>> ELSE SubSeq(text, 1, run))
                  \o collapse_newlines_FourOrMore(SubSeq(text, run + 1, Len(text)))

\* re.sub(r'\n{3,}', '\n\n', text): every maximal run of three or more
\* newlines becomes two
RECURSIVE collapse_newlines(_)
collapse_newlines(text) ==
    IF text = <<>> THEN <<>>
    ELSE LET run == NewlineRun(text)
         IN  IF run = 0 THEN <<Head(text)>> \o collapse_newlines(Tail(text))
             ELSE (IF run >= 3 THEN <<NL, NL>> ELSE SubSeq(text, 1, run))
                  \o collapse_newlines(SubSeq(text, run + 1, Len(text)))

_extract_text(nodes) == collapse_newlines(get_text(nodes))

(***************************************************************************)
(* Specifications.                                                         *)
(***************************************************************************)
NoOutcome   == [path |-> "", raised |-> "", result |-> NoAnalysis]
NoReportYet == [raised |-> "", result |-> NoReport]
NoElement   == UIElement(<<>>, "", <<>>, "")
NoSent      == Sent("prose", PyDict(<<>>, <<>>), <<>>, <<>>, 0)
NoArticle   == [id |-> 0, title |-> "", html_url |-> "", audience |-> "", body |-> <<>>]

\* no batch is running
BatchIdle ==
    /\ articles = <<>>
    /\ cursor = 1
    /\ results = <<>>
    /\ attempts = <<>>
    /\ messages = <<>>

\* the None of st.session_state.zendesk_client and of .analyzer
NoClient   == [subdomain |-> "", email |-> "", api_token |-> ""]
NoAnalyzer == [api_key |-> ""]

\* no session is open and no secret has been looked up
SessionIdle ==
    /\ connected = FALSE
    /\ zendesk_client = NoClient
    /\ analyzer = NoAnalyzer
    /\ audit_history = <<>>
    /\ calls = <<>>
    /\ produced = 0
    /\ steps = 0
    /\ secrets = <<>>
    /\ environ = <<>>
    /\ lookup = <<>>
    /\ secret = ""

\* nothing has been formatted or extracted
TextsIdle ==
    /\ json_text = <<>>
    /\ markdown = <<>>
    /\ html_content = <<>>
    /\ extracted = <<>>

\* the variables a specification does not use
OthersIdle ==
    /\ elements = <<>>
    /\ ui_report = NoUIReport
    /\ scanned = <<>>
    /\ BatchIdle
    /\ TextsIdle
    /\ SessionIdle

\* --- one audit: analyze, then generate_report ---------------------------
InitAnalyze ==
    /\ pc = "start"
    /\ article \in Articles
    /\ sent \in Sents
    /\ response_text = ResponseOf(sent)
    /\ outcome = NoOutcome
    /\ report = NoReportYet
    /\ element = NoElement
    /\ verification = NoResult(NoElement)
    /\ OthersIdle

\* analyzer.analyze(article) once the response has arrived
Analyze ==
    /\ pc = "start"
    /\ outcome' \in analyze(article, response_text)
    /\ pc' = "analyzed"
    /\ UNCHANGED <<article, sent, response_text, report, element, verification>>
    /\ UNCHANGED others

\* the UI report of an article without UI elements, and no UI report
UIReports ==
    { NoUIReport,
      [present |-> TRUE, elements_found |-> <<>>, results |-> <<>>,
       overall_confidence |-> Rat(100, 1), needs_manual_review |-> FALSE,
       manual_review_items |-> <<>>] }

\* generate_report(article, analysis, ui_report); not reached when analyze
\* raised
GenerateReport ==
    /\ pc = "analyzed"
    /\ outcome.raised = ""
    /\ \E now \in 1..MaxTime, ui \in UIReports :
          report' = generate_report(article, outcome.result, ui, now)
    /\ pc' = "reported"
    /\ UNCHANGED <<article, sent, response_text, outcome, element, verification>>
    /\ UNCHANGED others

NextAnalyze == Analyze \/ GenerateReport

SpecAnalyze == InitAnalyze /\ [][NextAnalyze]_vars

\* --- the rating of every score: the response carries only the score -----
InitRating ==
    /\ pc = "start"
    /\ article \in {a \in Articles : a.body = <<>>}
    /\ \E n \in (100 - MaxScore)..MaxScore :
          sent = Sent("json", PyDict(<<"overall_score">>, <<PyInt(n)>>), <<>>, <<>>, 0)
    /\ response_text = ResponseOf(sent)
    /\ outcome = NoOutcome
    /\ report = NoReportYet
    /\ element = NoElement
    /\ verification = NoResult(NoElement)
    /\ OthersIdle

SpecRating == InitRating /\ [][NextAnalyze]_vars

\* --- UI verification of the elements of one article ---------------------
\* elements as _extract_ui_elements tags them: buttons and navigation paths
ExtractedElements ==
    {UIElement(t, ty, t, "unknown") :
        t \in {v \in Vocabulary : Len(v) <= 7}, ty \in {"button", "navigation"}}

RECURSIVE SeqsUpTo(_, _)
SeqsUpTo(S, k) ==
    IF k = 0 THEN {<<>>}
    ELSE LET prev == SeqsUpTo(S, k - 1)
         IN  prev \cup {Append(q, x) : q \in {r \in prev : Len(r) = k - 1}, x \in S}

InitVerify ==
    /\ pc = "extracted"
    /\ elements \in SeqsUpTo(ExtractedElements, MaxElems)
    /\ ui_report = NoUIReport
    /\ scanned = <<>>
    /\ article = NoArticle
    /\ sent = NoSent
    /\ response_text = <<>>
    /\ outcome = NoOutcome
    /\ report = NoReportYet
    /\ element = NoElement
    /\ verification = NoResult(NoElement)
    /\ BatchIdle
    /\ TextsIdle
    /\ SessionIdle

\* ui_verifier.verify_article(article.body), after the extraction
VerifyArticle ==
    /\ pc = "extracted"
    /\ ui_report' = verify_article(elements)
    /\ pc' = "verified"
    /\ UNCHANGED <<article, sent, response_text, outcome, report, element, verification,
                   elements, scanned>>
    /\ UNCHANGED batch
    /\ UNCHANGED texts
    /\ UNCHANGED session

NextVerify == VerifyArticle

SpecVerify == InitVerify /\ [][NextVerify]_vars

\* --- the hardcoded-link scan of one body ---------------------------------
ScanHrefs == {HREF_ABS, HREF_REL, HREF_NOLANG, HREF_EXT, HREF_REDIR, HREF_BARE}

InitScan ==
    /\ pc = "parsed"
    /\ \E b \in SeqsUpTo(ScanHrefs, MaxLinks) :
          article = [id |-> 100 + Len(b), title |-> "How to save",
                     html_url |-> "https://help.etsy.com/hc/articles/100",
                     audience |-> "Seller", body |-> b]
    /\ scanned = <<>>
    /\ elements = <<>>
    /\ ui_report = NoUIReport
    /\ sent = NoSent
    /\ response_text = <<>>
    /\ outcome = NoOutcome
    /\ report = NoReportYet
    /\ element = NoElement
    /\ verification = NoResult(NoElement)
    /\ BatchIdle
    /\ TextsIdle
    /\ SessionIdle

\* hardcoded_links = self._check_hardcoded_links(article.body)
Scan ==
    /\ pc = "parsed"
    /\ scanned' = _check_hardcoded_links(article.body)
    /\ pc' = "scanned"
    /\ UNCHANGED <<article, sent, response_text, outcome, report, element, verification,
                   elements, ui_report>>
    /\ UNCHANGED batch
    /\ UNCHANGED texts
    /\ UNCHANGED session

NextScan == Scan

SpecScan == InitScan /\ [][NextScan]_vars

\* --- a batch audit: audit_article for each locator in turn ---------------
\* locators the help center knows, and one it does not
KnownLocators == {"101", "102"}
Locators == KnownLocators \cup {"nope"}

\* client.get_article(locator) for a known locator
ArticleAt(locator) ==
    [id |-> IF locator = "101" THEN 101 ELSE 102, title |-> "How to save",
     html_url |-> "https://help.etsy.com/hc/articles/" \o locator,
     audience |-> "Seller",
     body |-> IF locator = "101" THEN <<HREF_REL>> ELSE <<HREF_REL, HREF_REL>>]

\* responses of the analysis collaborator during a batch
AuditSents ==
    { Sent("json", PyDict(<<"overall_score", "issues">>,
                          <<PyInt(85), PyList(<<IssueFull, IssueBare>>)>>), <<>>, <<>>, 0),
      Sent("json", PyDict(<<"overall_score">>, <<PyStr("high")>>), <<>>, <<>>, 0),
      Sent("json", PyDict(<<"issues">>, <<PyInt(5)>>), <<>>, <<>>, 0),
      Sent("json", PyDict(<<"member_services_flag", "flag_reason">>,
                          <<PyBool(TRUE), PyStr("Check policy")>>), <<>>, <<>>, 0),
      Sent("prose", PyDict(<<>>, <<>>), <<TokWord("I"), TokWord("cannot")>>, <<>>, 0) }

\* what the extraction finds in a body
AuditElements ==
    { <<>>,
      <<UIElement(<<"S","a","v","e">>, "button", <<"S","a","v","e">>, "unknown")>>,
      <<UIElement(<<"S","a","v","e">>, "button", <<"S","a","v","e">>, "unknown"),
        UIElement(<<"a","l","c","h","e","m","y">>, "navigation",
                  <<"a","l","c","h","e","m","y">>, "unknown"),
        UIElement(<<"F","o","o">>, "button", <<"F","o","o">>, "unknown")>> }

Message(level, at) == [level |-> level, at |-> at]
\* one call of audit_article: its argument, how it ended, what it returned
\* (NoReport for None)
Attempt(locator, status, returned) ==
    [locator |-> locator, status |-> status, returned |-> returned]

InitAudit ==
    /\ pc = "loop"
    /\ articles \in SeqsUpTo(Locators, MaxBatch)
    /\ cursor = 1
    /\ results = <<>>
    /\ attempts = <<>>
    /\ messages = <<>>
    /\ article = NoArticle
    /\ sent = NoSent
    /\ response_text = <<>>
    /\ outcome = NoOutcome
    /\ ui_report = NoUIReport
    /\ elements = <<>>
    /\ report = NoReportYet
    /\ scanned = <<>>
    /\ element = NoElement
    /\ verification = NoResult(NoElement)
    /\ TextsIdle
    /\ SessionIdle

\* the locals of audit_article when a call begins
FreshLocals ==
    /\ sent' = NoSent
    /\ response_text' = <<>>
    /\ outcome' = NoOutcome
    /\ ui_report' = NoUIReport
    /\ elements' = <<>>
    /\ report' = NoReportYet

\* "return None": the loop goes on with the next locator
ReturnNone(status) ==
    /\ messages' = Append(messages, Message("error", cursor))
    /\ attempts' = Append(attempts, Attempt(articles[cursor], status, NoReport))
    /\ cursor' = cursor + 1
    /\ pc' = "loop"

\* article = client.get_article(url_or_id)
FetchArticle ==
    /\ pc = "loop"
    /\ cursor <= Len(articles)
    /\ articles[cursor] \in KnownLocators
    /\ article' = ArticleAt(articles[cursor])
    /\ FreshLocals
    /\ pc' = "analyze"
    /\ UNCHANGED <<articles, cursor, results, attempts, messages,
                   scanned, element, verification>>
    /\ UNCHANGED texts
    /\ UNCHANGED session

\* get_article raises: unknown locator, or the request fails
FetchFails ==
    /\ pc = "loop"
    /\ cursor <= Len(articles)
    /\ article' = NoArticle
    /\ FreshLocals
    /\ ReturnNone("fetch_failed")
    /\ UNCHANGED <<articles, results, scanned, element, verification>>
    /\ UNCHANGED texts
    /\ UNCHANGED session

\* analysis = analyzer.analyze(article) returns
AnalyzeReturns ==
    /\ pc = "analyze"
    /\ \E m \in AuditSents :
          /\ sent' = m
          /\ response_text' = ResponseOf(m)
          /\ \E o \in analyze(article, ResponseOf(m)) :
                /\ o.raised = ""
                /\ outcome' = o
    /\ pc' = "verify"
    /\ UNCHANGED <<article, report, element, verification, elements, ui_report, scanned>>
    /\ UNCHANGED batch
    /\ UNCHANGED texts
    /\ UNCHANGED session

\* analyze raises, in the request or while it reads the parsed object
AnalyzeRaises ==
    /\ pc = "analyze"
    /\ \/ /\ sent' = NoSent
          /\ response_text' = <<>>
          /\ outcome' = Raised("request", "APIError")
       \/ \E m \in AuditSents :
             /\ sent' = m
             /\ response_text' = ResponseOf(m)
             /\ \E o \in analyze(article, ResponseOf(m)) :
                   /\ o.raised # ""
                   /\ outcome' = o
    /\ ReturnNone("analysis_failed")
    /\ UNCHANGED <<article, report, element, verification, elements, ui_report, scanned>>
    /\ UNCHANGED <<articles, results>>
    /\ UNCHANGED texts
    /\ UNCHANGED session

\* ui_report = ui_verifier.verify_article(article.body)
VerifyReturns ==
    /\ pc = "verify"
    /\ \E elems \in AuditElements :
          /\ elements' = elems
          /\ ui_report' = verify_article(elems)
    /\ pc' = "report"
    /\ UNCHANGED <<article, sent, response_text, outcome, report, element, verification,
                   scanned>>
    /\ UNCHANGED batch
    /\ UNCHANGED texts
    /\ UNCHANGED session

\* verify_article raises: st.warning, ui_report = None
VerifyRaises ==
    /\ pc = "verify"
    /\ ui_report' = NoUIReport
    /\ messages' = Append(messages, Message("warning", cursor))
    /\ pc' = "report"
    /\ UNCHANGED <<article, sent, response_text, outcome, report, element, verification,
                   elements, scanned>>
    /\ UNCHANGED <<articles, cursor, results, attempts>>
    /\ UNCHANGED texts
    /\ UNCHANGED session

\* report = generate_report(article, analysis, ui_report) returns, and the
\* loop appends the report; the clock ticks once per audit
ReportReturns ==
    /\ pc = "report"
    /\ LET r == generate_report(article, outcome.result, ui_report, cursor)
       IN  /\ r.raised = ""
           /\ report' = r
           /\ results' = Append(results, r.result)
           /\ attempts' = Append(attempts, Attempt(articles[cursor], "reported", r.result))
    /\ cursor' = cursor + 1
    /\ pc' = "loop"
    /\ UNCHANGED <<article, sent, response_text, outcome, element, verification,
                   elements, ui_report, scanned, articles, messages>>
    /\ UNCHANGED texts
    /\ UNCHANGED session

\* generate_report raises; nothing in audit_article or in the loop catches
\* it, and the run ends
ReportRaises ==
    /\ pc = "report"
    /\ LET r == generate_report(article, outcome.result, ui_report, cursor)
       IN  /\ r.raised # ""
           /\ report' = r
    /\ pc' = "crashed"
    /\ UNCHANGED <<article, sent, response_text, outcome, element, verification,
                   elements, ui_report, scanned>>
    /\ UNCHANGED batch
    /\ UNCHANGED texts
    /\ UNCHANGED session

\* the loop has gone through every locator
BatchDone ==
    /\ pc = "loop"
    /\ cursor > Len(articles)
    /\ pc' = "done"
    /\ UNCHANGED <<article, sent, response_text, outcome, report, element, verification,
                   elements, ui_report, scanned>>
    /\ UNCHANGED batch
    /\ UNCHANGED texts
    /\ UNCHANGED session

NextAudit ==
    \/ FetchArticle \/ FetchFails
    \/ AnalyzeReturns \/ AnalyzeRaises
    \/ VerifyReturns \/ VerifyRaises
    \/ ReportReturns \/ ReportRaises
    \/ BatchDone

SpecAudit == InitAudit /\ [][NextAudit]_vars

\* --- the structured and the Markdown form of a report -------------------
IssueOf(category, severity) ==
    PyDict(<<"category", "severity", "description", "location">>,
           <<PyStr(category), severity, PyStr("Unclear step"), PyStr("Step 1")>>)

ExportIssueLists ==
    { <<IssueOf("actionable", PyStr("critical")), IssueOf("brief", PyStr("warning"))>>,
      <<IssueOf("targeted", PyStr("suggestion")), IssueOf("technical", PyStr("warning")),
        IssueOf("audience", PyStr("minor")), IssueOdd>>,
      <<IssueFull, IssueBare>>,
      <<IssueOf("brief", PyList(<<PyStr("critical")>>))>> }

\* the fields a response may carry besides the score: at most one of each key
ExportOptions ==
    { <<Field("issues", PyList(l))>> : l \in ExportIssueLists } \cup {<<>>}

ExportExtras ==
    { <<>>,
      <<Field("hardcoded_links", PyList(<<LinkOther>>))>>,
      <<Field("member_services_flag", PyBool(TRUE)), Field("flag_reason", PyStr("Check policy"))>>,
      <<Field("hardcoded_links", PyList(<<LinkOther>>)),
        Field("member_services_flag", PyBool(TRUE)), Field("summary", PyStr("Clear."))>> }

ExportObjects ==
    { LET fields == <<Field("overall_score", score)>> \o opt \o extra
      IN  PyDict([i \in DOMAIN fields |-> fields[i].key], [i \in DOMAIN fields |-> fields[i].val])
      : score \in {PyInt(85), PyInt(40), PyBool(TRUE)},
        opt \in ExportOptions, extra \in ExportExtras }

ExportSents ==
    { Sent("json", obj, <<>>, <<>>, 0) : obj \in ExportObjects }
    \cup { Sent("prose", PyDict(<<>>, <<>>), <<TokWord("I"), TokWord("cannot")>>, <<>>, 0) }

ExportUIReports == {NoUIReport} \cup {verify_article(e) : e \in AuditElements}

InitExport ==
    /\ pc = "report"
    /\ article \in {a \in Articles : a.body = <<>>}
    /\ sent \in ExportSents
    /\ response_text = ResponseOf(sent)
    /\ outcome \in {o \in analyze(article, response_text) : o.raised = ""}
    /\ ui_report \in ExportUIReports
    /\ elements = ui_report.elements_found
    /\ \E now \in 1..MaxTime :
          report = generate_report(article, outcome.result, ui_report, now)
    /\ report.raised = ""
    /\ scanned = <<>>
    /\ element = NoElement
    /\ verification = NoResult(NoElement)
    /\ BatchIdle
    /\ TextsIdle
    /\ SessionIdle

\* report.to_json()
ToJson ==
    /\ pc = "report"
    /\ json_text' = to_json(report.result)
    /\ pc' = "json"
    /\ UNCHANGED <<article, sent, response_text, outcome, report, element, verification,
                   elements, ui_report, scanned, markdown, html_content, extracted>>
    /\ UNCHANGED batch
    /\ UNCHANGED session

\* report.to_markdown() returns
ToMarkdown ==
    /\ pc = "report"
    /\ to_markdown(report.result).raised = ""
    /\ markdown' = to_markdown(report.result).lines
    /\ pc' = "markdown"
    /\ UNCHANGED <<article, sent, response_text, outcome, report, element, verification,
                   elements, ui_report, scanned, json_text, html_content, extracted>>
    /\ UNCHANGED batch
    /\ UNCHANGED session

\* report.to_markdown() raises in _format_issue_md
ToMarkdownRaises ==
    /\ pc = "report"
    /\ to_markdown(report.result).raised # ""
    /\ pc' = "markdown_raised"
    /\ UNCHANGED <<article, sent, response_text, outcome, report, element, verification,
                   elements, ui_report, scanned>>
    /\ UNCHANGED batch
    /\ UNCHANGED texts
    /\ UNCHANGED session

NextExport == ToJson \/ ToMarkdown \/ ToMarkdownRaises

SpecExport == InitExport /\ [][NextExport]_vars

\* --- text extraction from a markup ---------------------------------------
RECURSIVE Texts(_)
Texts(k) ==
    IF k = 0 THEN {<<>>}
    ELSE LET prev == Texts(k - 1)
         IN  prev \cup {Append(t, c) : t \in {u \in prev : Len(u) = k - 1}, c \in {"a", " ", NL}}

\* what follows the first text node
MarkupTails ==
    { <<>>,
      <<Node("script", <<"x", NL, NL, NL, NL, "y">>)>>,
      <<Node("p", <<"a">>)>>,
      <<Node("div", <<NL, NL, NL>>), Node("p", <<"a", NL>>)>> }

Markups == { <<Node("p", t)>> \o tail : t \in Texts(MaxChars), tail \in MarkupTails }

InitExtract ==
    /\ pc = "markup"
    /\ html_content \in Markups
    /\ extracted = <<>>
    /\ json_text = <<>>
    /\ markdown = <<>>
    /\ article = NoArticle
    /\ sent = NoSent
    /\ response_text = <<>>
    /\ outcome = NoOutcome
    /\ report = NoReportYet
    /\ element = NoElement
    /\ verification = NoResult(NoElement)
    /\ elements = <<>>
    /\ ui_report = NoUIReport
    /\ scanned = <<>>
    /\ BatchIdle
    /\ SessionIdle

\* article_text = self._extract_text(article.body)
ExtractText ==
    /\ pc = "markup"
    /\ extracted' = _extract_text(html_content)
    /\ pc' = "text"
    /\ UNCHANGED <<article, sent, response_text, outcome, report, element, verification,
                   elements, ui_report, scanned, json_text, markdown, html_content>>
    /\ UNCHANGED batch
    /\ UNCHANGED session

NextExtract == ExtractText

SpecExtract == InitExtract /\ [][NextExtract]_vars

\* --- one audit of a body, from its characters to the report --------------
MaxParagraphs == 2   \* paragraphs in the body of the audited article

\* paragraphs of help-center articles
SaveParagraph ==
    <<"<","p",">","C","l","i","c","k"," ","<","s","t","r","o","n","g",">","S",
      "a","v","e","<","/","s","t","r","o","n","g",">"," ","t","o"," ","c","o",
      "n","t","i","n","u","e",".","<","/","p",">">>
LowerParagraph ==
    <<"<","p",">","c","l","i","c","k"," ","t","o"," ","c","o","n","t","i","n",
      "u","e",".","<","/","p",">">>
PathParagraph ==
    <<"<","p",">","G","o"," ","t","o"," ","S","h","o","p"," ","M","a","n","a",
      "g","e","r"," ",">"," ","S","e","t","t","i","n","g","s",".","<","/","p",
      ">">>
QuoteParagraph ==
    <<"<","p",">","T","a","p"," ",DQ,"P","u","b","l","i","s","h",DQ," ","i",
      "n"," ","t","h","e"," ","a","p","p",".","<","/","p",">">>
PlainParagraph ==
    <<"<","p",">","R","e","a","d"," ","t","h","e"," ","p","o","l","i","c","y",
      ".","<","/","p",">">>
Paragraphs == {SaveParagraph, LowerParagraph, PathParagraph, QuoteParagraph, PlainParagraph}

RECURSIVE Flatten(_)
Flatten(seqs) == IF seqs = <<>> THEN <<>> ELSE Head(seqs) \o Flatten(Tail(seqs))

PipelineBodies == {Flatten(ps) : ps \in SeqsUpTo(Paragraphs, MaxParagraphs)}

\* the analysis responses: a clean one, and one with two issues
CleanResponse ==
    Sent("json",
         PyDict(<<"overall_score", "audience_detected", "audience_mismatch",
                  "has_web_instructions", "has_app_instructions", "issues",
                  "hardcoded_links", "member_services_flag", "summary">>,
                <<PyInt(85), PyStr("Seller"), PyBool(FALSE), PyBool(TRUE), PyBool(FALSE),
                  PyList(<<>>), PyList(<<>>), PyBool(FALSE), PyStr("Clear.")>>),
         <<>>, <<>>, 0)
IssuesResponse ==
    Sent("json", PyDict(<<"overall_score", "issues">>,
                        <<PyInt(95), PyList(<<IssueFull, IssueBare>>)>>), <<>>, <<>>, 0)
PipelineSents == {CleanResponse, IssuesResponse}

\* the article of the audit; its body is html_content, which holds no anchor
PipelineArticle ==
    [id |-> 100, title |-> "How to save",
     html_url |-> "https://help.etsy.com/hc/articles/100",
     audience |-> "Seller", body |-> <<>>]

InitPipeline ==
    /\ pc = "analyze"
    /\ article = PipelineArticle
    /\ html_content \in PipelineBodies
    /\ sent \in PipelineSents
    /\ response_text = ResponseOf(sent)
    /\ outcome = NoOutcome
    /\ report = NoReportYet
    /\ elements = <<>>
    /\ ui_report = NoUIReport
    /\ scanned = <<>>
    /\ element = NoElement
    /\ verification = NoResult(NoElement)
    /\ BatchIdle
    /\ SessionIdle
    /\ json_text = <<>>
    /\ markdown = <<>>
    /\ extracted = <<>>

\* analysis = st.session_state.analyzer.analyze(article)
AnalyzeBody ==
    /\ pc = "analyze"
    /\ \E o \in analyze(article, response_text) :
          /\ o.raised = ""
          /\ outcome' = o
    /\ pc' = "verify"
    /\ UNCHANGED <<article, sent, response_text, report, element, verification,
                   elements, ui_report, scanned>>
    /\ UNCHANGED batch
    /\ UNCHANGED texts
    /\ UNCHANGED session

\* ui_report = st.session_state.ui_verifier.verify_article(article.body)
VerifyBody ==
    /\ pc = "verify"
    /\ elements' = _extract_ui_elements(html_content)
    /\ ui_report' = verify_article(_extract_ui_elements(html_content))
    /\ pc' = "report"
    /\ UNCHANGED <<article, sent, response_text, outcome, report, element, verification,
                   scanned>>
    /\ UNCHANGED batch
    /\ UNCHANGED texts
    /\ UNCHANGED session

\* report = generate_report(article, analysis, ui_report)
ReportBody ==
    /\ pc = "report"
    /\ LET r == generate_report(article, outcome.result, ui_report, 1)
       IN  /\ r.raised = ""
           /\ report' = r
    /\ pc' = "done"
    /\ UNCHANGED <<article, sent, response_text, outcome, element, verification,
                   elements, ui_report, scanned>>
    /\ UNCHANGED batch
    /\ UNCHANGED texts
    /\ UNCHANGED session

NextPipeline == AnalyzeBody \/ VerifyBody \/ ReportBody

SpecPipeline == InitPipeline /\ [][NextPipeline]_vars

\* --- a session: Connect and Audit presses, one after the other ------------
MaxPresses == 3   \* button presses in one session

\* what the user has typed in the three configuration fields
Credentials == {"seller", "admin"}

ZendeskClient(cred)   == [subdomain |-> "etsy", email |-> cred, api_token |-> cred]
ContentAnalyzer(cred) == [api_key |-> cred]

\* one call of a collaborator and whether it returned
Call(step, ok) == [step |-> step, ok |-> ok]

\* the entry audit_article appends to the history
HistoryEntry(r) ==
    [title |-> r.article_title, score |-> r.overall_score,
     issues |-> total_issues(r), url |-> r.article_url]

\* init_session_state on the first run of the script
InitSession ==
    /\ pc = "idle"
    /\ connected = FALSE
    /\ zendesk_client = NoClient
    /\ analyzer = NoAnalyzer
    /\ audit_history = <<>>
    /\ calls = <<>>
    /\ produced = 0
    /\ steps = 0
    /\ messages = <<>>
    /\ article = NoArticle
    /\ sent = NoSent
    /\ response_text = <<>>
    /\ outcome = NoOutcome
    /\ ui_report = NoUIReport
    /\ elements = <<>>
    /\ report = NoReportYet
    /\ scanned = <<>>
    /\ element = NoElement
    /\ verification = NoResult(NoElement)
    /\ articles = <<>>
    /\ cursor = 1
    /\ results = <<>>
    /\ attempts = <<>>
    /\ TextsIdle
    /\ secrets = <<>>
    /\ environ = <<>>
    /\ lookup = <<>>
    /\ secret = ""

\* what no step of a session touches
SessionFrame ==
    /\ UNCHANGED <<scanned, element, verification, articles, cursor, results, attempts>>
    /\ UNCHANGED texts
    /\ UNCHANGED <<secrets, environ, lookup, secret>>

\* the locals of an audit
AuditLocals == <<article, sent, response_text, outcome, ui_report, elements, report>>

\* a press of a button begins
Press ==
    /\ pc = "idle"
    /\ steps < MaxPresses
    /\ steps' = steps + 1

\* Connect: the connection test passes and the session stores both objects
ConnectSucceeds ==
    /\ Press
    /\ \E cred \in Credentials :
          /\ zendesk_client' = ZendeskClient(cred)
          /\ analyzer' = ContentAnalyzer(cred)
    /\ connected' = TRUE
    /\ messages' = Append(messages, Message("success", "Connected successfully!"))
    /\ UNCHANGED <<pc, audit_history, calls, produced>>
    /\ UNCHANGED AuditLocals
    /\ SessionFrame

\* Connect, had it stored the client before it tested the connection
ConnectCheckFails_StoresClient ==
    /\ Press
    /\ \E cred \in Credentials : zendesk_client' = ZendeskClient(cred)
    /\ messages' = Append(messages, Message("error", "Failed to connect to Zendesk"))
    /\ UNCHANGED <<pc, connected, analyzer, audit_history, calls, produced>>
    /\ UNCHANGED AuditLocals
    /\ SessionFrame

\* Connect: client.test_connection() returns False
ConnectCheckFails ==
    /\ Press
    /\ messages' = Append(messages, Message("error", "Failed to connect to Zendesk"))
    /\ UNCHANGED <<pc, connected, zendesk_client, analyzer, audit_history, calls, produced>>
    /\ UNCHANGED AuditLocals
    /\ SessionFrame

\* Connect: a constructor raises
ConnectRaises ==
    /\ Press
    /\ messages' = Append(messages, Message("error", "Connection error"))
    /\ UNCHANGED <<pc, connected, zendesk_client, analyzer, audit_history, calls, produced>>
    /\ UNCHANGED AuditLocals
    /\ SessionFrame

\* the locals of audit_article when a call begins
FreshAudit ==
    /\ sent' = NoSent
    /\ response_text' = <<>>
    /\ outcome' = NoOutcome
    /\ ui_report' = NoUIReport
    /\ elements' = <<>>
    /\ report' = NoReportYet

\* Audit while not connected: st.error, return None
AuditNotConnected ==
    /\ Press
    /\ ~connected
    /\ article' = NoArticle
    /\ FreshAudit
    /\ calls' = <<>>
    /\ messages' = Append(messages, Message("error", "Please connect to the APIs first"))
    /\ UNCHANGED <<pc, connected, zendesk_client, analyzer, audit_history, produced>>
    /\ SessionFrame

\* Audit: article = client.get_article(url_or_id) returns
FetchReturns ==
    /\ Press
    /\ connected
    /\ \E locator \in KnownLocators : article' = ArticleAt(locator)
    /\ FreshAudit
    /\ calls' = <<Call("fetch", TRUE)>>
    /\ pc' = "analyze"
    /\ UNCHANGED <<connected, zendesk_client, analyzer, audit_history, produced, messages>>
    /\ SessionFrame

\* Audit: get_article raises; st.error, return None
FetchRaises ==
    /\ Press
    /\ connected
    /\ article' = NoArticle
    /\ FreshAudit
    /\ calls' = <<Call("fetch", FALSE)>>
    /\ messages' = Append(messages, Message("error", "Failed to fetch article"))
    /\ UNCHANGED <<pc, connected, zendesk_client, analyzer, audit_history, produced>>
    /\ SessionFrame

\* analysis = analyzer.analyze(article) returns
AnalysisReturns ==
    /\ pc = "analyze"
    /\ \E m \in AuditSents :
          /\ sent' = m
          /\ response_text' = ResponseOf(m)
          /\ \E o \in analyze(article, ResponseOf(m)) :
                /\ o.raised = ""
                /\ outcome' = o
    /\ calls' = Append(calls, Call("analyze", TRUE))
    /\ pc' = "verify"
    /\ UNCHANGED <<article, ui_report, elements, report, messages, steps>>
    /\ UNCHANGED <<connected, zendesk_client, analyzer, audit_history, produced>>
    /\ SessionFrame

\* a failed analysis, had the audit gone on to the UI verification
AnalysisRaises_GoesOn ==
    /\ pc = "analyze"
    /\ sent' = NoSent
    /\ response_text' = <<>>
    /\ outcome' = Raised("request", "APIError")
    /\ calls' = Append(calls, Call("analyze", FALSE))
    /\ messages' = Append(messages, Message("error", "Analysis failed"))
    /\ pc' = "verify"
    /\ UNCHANGED <<article, ui_report, elements, report, steps>>
    /\ UNCHANGED <<connected, zendesk_client, analyzer, audit_history, produced>>
    /\ SessionFrame

\* analyze raises, in the request or while it reads the parsed object;
\* st.error, return None
AnalysisRaises ==
    /\ pc = "analyze"
    /\ \/ /\ sent' = NoSent
          /\ response_text' = <<>>
          /\ outcome' = Raised("request", "APIError")
       \/ \E m \in AuditSents :
             /\ sent' = m
             /\ response_text' = ResponseOf(m)
             /\ \E o \in analyze(article, ResponseOf(m)) :
                   /\ o.raised # ""
                   /\ outcome' = o
    /\ calls' = Append(calls, Call("analyze", FALSE))
    /\ messages' = Append(messages, Message("error", "Analysis failed"))
    /\ pc' = "idle"
    /\ UNCHANGED <<article, ui_report, elements, report, steps>>
    /\ UNCHANGED <<connected, zendesk_client, analyzer, audit_history, produced>>
    /\ SessionFrame

\* ui_report = ui_verifier.verify_article(article.body) returns
VerificationReturns ==
    /\ pc = "verify"
    /\ \E elems \in AuditElements :
          /\ elements' = elems
          /\ ui_report' = verify_article(elems)
    /\ calls' = Append(calls, Call("verify", TRUE))
    /\ pc' = "report"
    /\ UNCHANGED <<article, sent, response_text, outcome, report, messages, steps>>
    /\ UNCHANGED <<connected, zendesk_client, analyzer, audit_history, produced>>
    /\ SessionFrame

\* verify_article raises: st.warning, ui_report = None
VerificationRaises ==
    /\ pc = "verify"
    /\ ui_report' = NoUIReport
    /\ calls' = Append(calls, Call("verify", FALSE))
    /\ messages' = Append(messages, Message("warning", "UI verification failed"))
    /\ pc' = "report"
    /\ UNCHANGED <<article, sent, response_text, outcome, elements, report, steps>>
    /\ UNCHANGED <<connected, zendesk_client, analyzer, audit_history, produced>>
    /\ SessionFrame

\* the end of an audit, had it returned the report without the history entry
GenerateReturns_NoHistory ==
    /\ pc = "report"
    /\ LET r == generate_report(article, outcome.result, ui_report, steps)
       IN  /\ r.raised = ""
           /\ report' = r
    /\ calls' = Append(calls, Call("report", TRUE))
    /\ produced' = produced + 1
    /\ pc' = "idle"
    /\ UNCHANGED <<article, sent, response_text, outcome, ui_report, elements, messages,
                   steps>>
    /\ UNCHANGED <<connected, zendesk_client, analyzer, audit_history>>
    /\ SessionFrame

\* report = generate_report(...) returns; the history gets its entry and
\* audit_article returns the report
GenerateReturns ==
    /\ pc = "report"
    /\ LET r == generate_report(article, outcome.result, ui_report, steps)
       IN  /\ r.raised = ""
           /\ report' = r
           /\ audit_history' = Append(audit_history, HistoryEntry(r.result))
    /\ calls' = Append(calls, Call("report", TRUE))
    /\ produced' = produced + 1
    /\ pc' = "idle"
    /\ UNCHANGED <<article, sent, response_text, outcome, ui_report, elements, messages,
                   steps>>
    /\ UNCHANGED <<connected, zendesk_client, analyzer>>
    /\ SessionFrame

\* generate_report raises; nothing in audit_article catches it, the run of
\* the script ends and the session goes on
GenerateRaises ==
    /\ pc = "report"
    /\ LET r == generate_report(article, outcome.result, ui_report, steps)
       IN  /\ r.raised # ""
           /\ report' = r
    /\ calls' = Append(calls, Call("report", FALSE))
    /\ pc' = "idle"
    /\ UNCHANGED <<article, sent, response_text, outcome, ui_report, elements, messages,
                   steps>>
    /\ UNCHANGED <<connected, zendesk_client, analyzer, audit_history, produced>>
    /\ SessionFrame

NextSession ==
    \/ ConnectSucceeds \/ ConnectCheckFails \/ ConnectRaises
    \/ AuditNotConnected
    \/ FetchReturns \/ FetchRaises
    \/ AnalysisReturns \/ AnalysisRaises
    \/ VerificationReturns \/ VerificationRaises
    \/ GenerateReturns \/ GenerateRaises

SpecSession == InitSession /\ [][NextSession]_vars

\* --- configuration: one call of get_secret --------------------------------
\* the names the application looks up
SecretKeys == {"ZENDESK_EMAIL", "ANTHROPIC_API_KEY"}

\* the mappings from some of the names to one of two values
Mappings(values) == UNION {[ks -> values] : ks \in SUBSET SecretKeys}

\* mapping.get(key, default), and os.getenv(key, default)
MappingGet(mapping, key, default) ==
    IF key \in DOMAIN mapping THEN mapping[key] ELSE default

\* get_secret: st.secrets.get(key, "") is returned when st.secrets can be
\* read; when reading it raises, os.getenv(key, default)
get_secret(store, env, key, default) ==
    IF store.readable
    THEN MappingGet(store.entries, key, "")
    ELSE MappingGet(env, key, default)

InitSecret ==
    /\ pc = "call"
    /\ secrets \in [readable : BOOLEAN, entries : Mappings({"s1", "s2"})]
    /\ environ \in Mappings({"e1", "e2"})
    /\ lookup \in [key : SecretKeys, default : {"", "d"}]
    /\ secret = ""
    /\ connected = FALSE
    /\ zendesk_client = NoClient
    /\ analyzer = NoAnalyzer
    /\ audit_history = <<>>
    /\ calls = <<>>
    /\ produced = 0
    /\ steps = 0
    /\ article = NoArticle
    /\ sent = NoSent
    /\ response_text = <<>>
    /\ outcome = NoOutcome
    /\ report = NoReportYet
    /\ element = NoElement
    /\ verification = NoResult(NoElement)
    /\ elements = <<>>
    /\ ui_report = NoUIReport
    /\ scanned = <<>>
    /\ BatchIdle
    /\ json_text = <<>>
    /\ markdown = <<>>
    /\ html_content = <<>>
    /\ extracted = <<>>

\* value = get_secret(key, default)
GetSecret ==
    /\ pc = "call"
    /\ secret' = get_secret(secrets, environ, lookup.key, lookup.default)
    /\ pc' = "returned"
    /\ UNCHANGED <<article, sent, response_text, outcome, report, element, verification,
                   elements, ui_report, scanned>>
    /\ UNCHANGED batch
    /\ UNCHANGED <<json_text, markdown, html_content, extracted>>
    /\ UNCHANGED <<connected, zendesk_client, analyzer, audit_history, calls, produced,
                   steps, secrets, environ, lookup>>

NextSecret == GetSecret

SpecSecret == InitSecret /\ [][NextSecret]_vars

\* --- classification of one UI element -----------------------------------
InitClassify ==
    /\ pc = "extracted"
    /\ element \in Elements
    /\ verification = NoResult(element)
    /\ article = NoArticle
    /\ sent = NoSent
    /\ response_text = <<>>
    /\ outcome = NoOutcome
    /\ report = NoReportYet
    /\ OthersIdle

\* one turn of verify_article's loop
Classify ==
    /\ pc = "extracted"
    /\ verification' = VerifyElement(element)
    /\ pc' = "classified"
    /\ UNCHANGED <<article, sent, response_text, outcome, report, element>>
    /\ UNCHANGED others

NextClassify == Classify

SpecClassify == InitClassify /\ [][NextClassify]_vars

(***************************************************************************)
(* Properties.                                                             *)
(***************************************************************************)
Analyzed == pc \in {"analyzed", "reported"}

\* the response holds the whole object the model wrote, between prose
\* without braces before it
ObjectEmbedded == sent.kind = "json" /\ sent.cut = 0

HasBrace(text) == \E i \in DOMAIN text : text[i].k \in {"{", "}"}

\* C1: analyze never raises: for every response text (empty, prose, cut
\* short, or an object whose values have unexpected shapes) it returns an
\* AnalysisResult.
C1_AnalyzeNeverRaises ==
    Analyzed => outcome.raised = ""

\* C2: when the response holds a well-formed JSON object embedded in prose,
\* analyze finds it and takes the success path, whatever text follows it.
C2_EmbeddedObjectFound ==
    (Analyzed /\ ObjectEmbedded) => outcome.path = "success"

\* C3: when no JSON object can be found in the response, or parsing it
\* fails, analyze returns the degraded result: score 0, audience "Unknown",
\* no mismatch, exactly one Issue, of severity critical and with a retry
\* recommendation, and the response text verbatim as raw_analysis.
NothingParseable ==
    \/ sent.kind = "prose"
    \/ sent.cut > 0
    \/ re_search(response_text) = <<>>
    \/ ~json_loads(re_search(response_text)).ok

C3_DegradedOnFailure ==
    (Analyzed /\ NothingParseable) =>
        /\ outcome.raised = ""
        /\ outcome.result.overall_score = PyInt(0)
        /\ outcome.result.audience_detected = PyStr("Unknown")
        /\ outcome.result.audience_mismatch = PyBool(FALSE)
        /\ Len(outcome.result.issues) = 1
        /\ outcome.result.issues[1].severity = PyStr("critical")
        /\ outcome.result.issues[1].recommendation = PyStr("Please try again")
        /\ outcome.result.raw_analysis.jt = "str"
        /\ outcome.result.raw_analysis.items = response_text

C3_Witness ==
    /\ pc = "analyzed"
    /\ sent.kind = "json" /\ sent.cut = 1 /\ HasKey(sent.payload, "issues")
    /\ outcome.path = "failure"
    /\ outcome.result.raw_analysis.items = response_text

\* C4: generate_report puts every issue of analysis.issues in one of the
\* five buckets: total_issues is the number of issues of the analysis.
C4_EveryIssueBucketed ==
    (pc = "reported" /\ report.raised = "") =>
        total_issues(report.result) = Len(outcome.result.issues)

\* C5: the overall_score of the AnalysisResult, and of the AuditReport built
\* from it, is an integer in 0..100.
ValidScore(v) == v.jt = "int" /\ v.n \in 0..100

C5_ScoreInRange ==
    /\ (Analyzed /\ outcome.raised = "") => ValidScore(outcome.result.overall_score)
    /\ (pc = "reported" /\ report.raised = "") => ValidScore(report.result.overall_score)

\* C6: an element whose lower-cased, trimmed text equals a key of the table
\* marked current is classified verified with confidence 0.9, whether or not
\* an outdated pattern matches it too.
ExactKey(elem) ==
    \E i \in DOMAIN KNOWN_UI_ELEMENTS :
        /\ KNOWN_UI_ELEMENTS[i].key = Strip(Lower(elem.text))
        /\ KNOWN_UI_ELEMENTS[i].status = "current"

OutdatedHit(elem) ==
    \E i \in DOMAIN OUTDATED_PATTERNS : Contains(Strip(Lower(elem.text)), OUTDATED_PATTERNS[i])

PartialHit(elem) ==
    \E i \in DOMAIN KNOWN_UI_ELEMENTS :
        \/ Contains(Strip(Lower(elem.text)), KNOWN_UI_ELEMENTS[i].key)
        \/ Contains(KNOWN_UI_ELEMENTS[i].key, Strip(Lower(elem.text)))

C6_ExactMatchVerified ==
    (pc = "classified" /\ ExactKey(element)) =>
        /\ verification.status = "verified"
        /\ verification.confidence = 90

C6_Witness ==
    /\ pc = "classified"
    /\ ExactKey(element)
    /\ element.text # Strip(Lower(element.text))
    /\ verification.status = "verified" /\ verification.confidence = 90

\* C7: without an exact match the remaining rules apply in order, first
\* match wins: an outdated pattern gives potentially_outdated 0.7 (even if a
\* table key is a substring too); else a key containing or contained in the
\* text gives verified 0.7; else unverified 0.3 with a note recommending
\* manual review.
C7_RuleOrder ==
    (pc = "classified" /\ ~ExactKey(element)) =>
        IF OutdatedHit(element)
        THEN verification.status = "potentially_outdated" /\ verification.confidence = 70
        ELSE IF PartialHit(element)
        THEN verification.status = "verified" /\ verification.confidence = 70
        ELSE /\ verification.status = "unverified"
             /\ verification.confidence = 30
             /\ verification.notes =
                  "Could not verify against known elements - manual review recommended"

C7_Witness ==
    /\ pc = "classified"
    /\ ~ExactKey(element) /\ OutdatedHit(element) /\ PartialHit(element)
    /\ verification.status = "potentially_outdated" /\ verification.confidence = 70

\* C8: quality_rating is "Excellent" for score >= 90, "Good" for
\* 75 <= score < 90, "Needs Work" for 60 <= score < 75 and "Critical Issues"
\* for score < 60, for the score the model sent.
SentScore == DictGet(sent.payload, "overall_score", PyInt(0)).n

C8_RatingThresholds ==
    (pc = "reported" /\ report.raised = "") =>
        /\ SentScore >= 90 => report.result.quality_rating = "Excellent"
        /\ (75 <= SentScore /\ SentScore < 90) => report.result.quality_rating = "Good"
        /\ (60 <= SentScore /\ SentScore < 75) => report.result.quality_rating = "Needs Work"
        /\ SentScore < 60 => report.result.quality_rating = "Critical Issues"

C8_Witness ==
    /\ pc = "reported" /\ report.raised = ""
    /\ SentScore = 75
    /\ report.result.overall_score = PyInt(75)
    /\ report.result.quality_rating = "Good"

\* C9: on the success path hardcoded_links is the duplicate-free union of
\* the pre-scan hrefs and the model's 'hardcoded_links' (none when the key
\* is left out); a non-empty union adds exactly one Issue (technical,
\* warning, "Found N link(s) ..." with N the size of the union) after the
\* model's issues, an empty one adds none.
SucceededWith == Analyzed /\ outcome.path = "success" /\ outcome.raised = ""

ModelLinks  == DictGet(sent.payload, "hardcoded_links", PyList(<<>>)).items
ModelIssues == DictGet(sent.payload, "issues", PyList(<<>>)).items
LinkUnion   == Range(_check_hardcoded_links(article.body)) \cup Range(ModelLinks)

C9_HardcodedLinksUnion ==
    SucceededWith =>
        LET res == outcome.result
            n   == Len(ModelIssues)
        IN  /\ Range(res.hardcoded_links) = LinkUnion
            /\ Len(res.hardcoded_links) = Cardinality(LinkUnion)
            /\ LinkUnion = {} => Len(res.issues) = n
            /\ LinkUnion # {} =>
                 /\ Len(res.issues) = n + 1
                 /\ res.issues[n + 1].category = PyStr("technical")
                 /\ res.issues[n + 1].severity = PyStr("warning")
                 /\ res.issues[n + 1].description =
                      PyStr("Found " \o ToString(Cardinality(LinkUnion))
                            \o " link(s) with hardcoded language tags")

C9_Witness ==
    /\ SucceededWith
    /\ Len(_check_hardcoded_links(article.body)) = 2
    /\ Len(ModelLinks) = 2
    /\ Len(ModelIssues) = 2
    /\ Len(outcome.result.hardcoded_links) = 2
    /\ Len(outcome.result.issues) = 3

\* C10: on the success path a missing key takes its default and causes no
\* failure (score 0, audience "Unknown", the four flags false, no issues,
\* no model links), and the entries of 'issues' become the Issues, one each
\* and in order, a missing category being "technical" and a missing
\* severity "warning".
WellShaped(obj) ==
    /\ HasKey(obj, "issues") =>
         /\ DictGet(obj, "issues", PyNone).jt = "list"
         /\ \A i \in DOMAIN ModelIssues : ModelIssues[i].jt = "dict"
    /\ HasKey(obj, "hardcoded_links") =>
         /\ DictGet(obj, "hardcoded_links", PyNone).jt = "list"
         /\ \A i \in DOMAIN ModelLinks : Hashable(ModelLinks[i])

Missing(key) == ~HasKey(sent.payload, key)

C10_DefaultsForMissingKeys ==
    (Analyzed /\ outcome.path = "success") =>
        LET res == outcome.result
        IN  /\ WellShaped(sent.payload) => outcome.raised = ""
            /\ outcome.raised = "" =>
                 /\ Missing("overall_score") => res.overall_score = PyInt(0)
                 /\ Missing("audience_detected") => res.audience_detected = PyStr("Unknown")
                 /\ Missing("audience_mismatch") => res.audience_mismatch = PyBool(FALSE)
                 /\ Missing("has_web_instructions") => res.has_web_instructions = PyBool(FALSE)
                 /\ Missing("has_app_instructions") => res.has_app_instructions = PyBool(FALSE)
                 /\ Missing("member_services_flag") => res.member_services_flag = PyBool(FALSE)
                 /\ Missing("hardcoded_links") =>
                        Range(res.hardcoded_links) = Range(_check_hardcoded_links(article.body))
                 /\ Len(res.issues) = Len(ModelIssues) + (IF res.hardcoded_links = <<>> THEN 0 ELSE 1)
                 /\ \A i \in DOMAIN ModelIssues :
                        /\ res.issues[i].category =
                             (IF HasKey(ModelIssues[i], "category")
                              THEN DictGet(ModelIssues[i], "category", PyNone)
                              ELSE PyStr("technical"))
                        /\ res.issues[i].severity =
                             (IF HasKey(ModelIssues[i], "severity")
                              THEN DictGet(ModelIssues[i], "severity", PyNone)
                              ELSE PyStr("warning"))
                        /\ res.issues[i].description =
                             DictGet(ModelIssues[i], "description", PyStr(""))

C10_Witness ==
    /\ Analyzed /\ outcome.path = "success" /\ outcome.raised = ""
    /\ Missing("overall_score") /\ Missing("audience_detected")
    /\ Len(ModelIssues) = 2
    /\ ~HasKey(ModelIssues[2], "category")
    /\ outcome.result.issues[2].category = PyStr("technical")
    /\ outcome.result.issues[2].severity = PyStr("warning")
    /\ outcome.result.overall_score = PyInt(0)

\* C11: overall_confidence is the arithmetic mean of the confidences of the
\* results when at least one element was extracted, and exactly 1.0 when
\* none was.
ResultConfidences == [i \in DOMAIN elements |-> VerifyElement(elements[i]).confidence]

RECURSIVE SeqSum(_)
SeqSum(q) == IF q = <<>> THEN 0 ELSE Head(q) + SeqSum(Tail(q))

C11_MeanConfidence ==
    pc = "verified" =>
        LET c == ui_report.overall_confidence
        IN  /\ c.den > 0
            /\ elements # <<>> => c.num * Len(elements) = SeqSum(ResultConfidences) * c.den
            /\ elements = <<>> => c.num = 100 * c.den

C11_Witness ==
    /\ pc = "verified"
    /\ Len(elements) = 3
    /\ Range(ResultConfidences) = {90, 70, 30}
    /\ ui_report.overall_confidence.num * 3 = 190 * ui_report.overall_confidence.den

\* C12: manual_review_items holds exactly one note, in element order, for
\* each result whose status is unverified or potentially_outdated and none
\* for a verified result; needs_manual_review is true exactly when the list
\* is non-empty.
StatusOf(e) == VerifyElement(e).status

\* the positions of the elements up to n whose status asks for a review
ReviewPositions(n) ==
    {i \in 1..n : StatusOf(elements[i]) \in {"unverified", "potentially_outdated"}}

C12_ManualReviewItems ==
    pc = "verified" =>
        LET items == ui_report.manual_review_items
        IN  /\ Len(items) = Cardinality(ReviewPositions(Len(elements)))
            /\ \A i \in ReviewPositions(Len(elements)) :
                  items[Cardinality(ReviewPositions(i))] =
                      ReviewNote(VerifyElement(elements[i]))
            /\ ui_report.needs_manual_review <=> (items # <<>>)

C12_Witness ==
    /\ pc = "verified"
    /\ Len(elements) = 3
    /\ StatusOf(elements[1]) = "potentially_outdated"
    /\ StatusOf(elements[2]) = "verified"
    /\ StatusOf(elements[3]) = "unverified"
    /\ Len(ui_report.manual_review_items) = 2
    /\ ui_report.needs_manual_review

\* the parts of a link target: scheme, host, and path up to the query or
\* fragment
HTTPS == <<"h","t","t","p","s",":","/","/">>
HTTP  == <<"h","t","t","p",":","/","/">>

SchemeLen(href) ==
    IF StartsWith(href, HTTPS) THEN Len(HTTPS)
    ELSE IF StartsWith(href, HTTP) THEN Len(HTTP) ELSE 0

\* the first position from `from` on that holds one of `stops`
FirstOf(href, from, stops) ==
    LET S == {i \in from..Len(href) : href[i] \in stops}
    IN  IF S = {} THEN Len(href) + 1 ELSE CHOOSE i \in S : \A j \in S : i <= j

HostEnd(href) ==
    IF SchemeLen(href) = 0 THEN 1
    ELSE FirstOf(href, SchemeLen(href) + 1, {"/", "?", "#"})

HostOf(href) ==
    IF SchemeLen(href) = 0 THEN <<>>
    ELSE SubSeq(href, SchemeLen(href) + 1, HostEnd(href) - 1)

PathOf(href) == SubSeq(href, HostEnd(href), FirstOf(href, HostEnd(href), {"?", "#"}) - 1)

OnHelpDomain(href) == HostOf(href) = HELP_DOMAIN
RootRelativeHelp(href) == SchemeLen(href) = 0 /\ StartsWith(href, HC_PREFIX)
ExternalHost(href) == HostOf(href) # <<>> /\ HostOf(href) # HELP_DOMAIN

\* the path has an xx-yy segment right after /hc/
LangSegmentAfterHc(href) ==
    LET path == PathOf(href)
    IN  /\ StartsWith(path, HC_PREFIX)
        /\ Len(path) >= 9
        /\ path[5] \in LowerLetters /\ path[6] \in LowerLetters
        /\ path[7] = "-"
        /\ path[8] \in LowerLetters /\ path[9] \in LowerLetters
        /\ Len(path) = 9 \/ path[10] = "/"

Flagged(href) == PyStr(Join(href)) \in Range(scanned)

\* C13: the scan flags an href exactly when its target is on the help
\* domain or is a root-relative /hc/ path, and its path has a two-letter
\* language, two-letter region segment right after /hc/; a link whose host
\* is an unrelated external domain is never flagged.
C13_ScanFlagsHelpLanguageLinks ==
    pc = "scanned" =>
        \A i \in DOMAIN article.body :
            LET href == article.body[i]
            IN  /\ Flagged(href) <=>
                      /\ OnHelpDomain(href) \/ RootRelativeHelp(href)
                      /\ LangSegmentAfterHc(href)
                /\ ExternalHost(href) => ~Flagged(href)

\* C14: the list returned by the scan holds no href twice, however many
\* anchors of the markup carry it.
C14_ScanDeduplicated ==
    pc = "scanned" =>
        \A i, j \in DOMAIN scanned : scanned[i] = scanned[j] => i = j

\* an audit has just produced a report
Reported == report # NoReportYet /\ report.raised = ""

UIDefaults(r) ==
    /\ r.ui_elements_verified = 0
    /\ r.ui_elements_total = 0
    /\ r.ui_confidence.num = 100 * r.ui_confidence.den
    /\ r.ui_manual_review_items = <<>>

\* C15: without a UI report generate_report sets the UI statistics to 0
\* verified, 0 total, confidence 1.0 and no manual-review items; with one,
\* the total is the number of elements found, verified is the number of
\* results with status verified, and confidence and manual-review items
\* are those of the UI report.
C15_UIStatistics ==
    Reported =>
        LET r == report.result
        IN  IF ~ui_report.present THEN UIDefaults(r)
            ELSE /\ r.ui_elements_total = Len(elements)
                 /\ r.ui_elements_verified =
                        Cardinality({i \in DOMAIN elements : StatusOf(elements[i]) = "verified"})
                 /\ r.ui_confidence = ui_report.overall_confidence
                 /\ r.ui_manual_review_items = ui_report.manual_review_items

C15_Witness ==
    /\ Reported
    /\ ui_report.present
    /\ report.result.ui_elements_total = 3
    /\ report.result.ui_elements_verified = 1
    /\ Len(report.result.ui_manual_review_items) = 2

\* UI verification raised in the audit of the k-th locator
VerifyRaisedAt(k) == Message("warning", k) \in Range(messages)

\* C16: when UI verification raises in an audit whose fetch and analysis
\* succeeded, the audit still produces a report, the report carries the UI
\* defaults (0 verified, 0 total, confidence 1.0, no manual-review items),
\* and the failure shows only as a warning.
C16_UIFailureIsNonFatal ==
    /\ pc = "crashed" => ~VerifyRaisedAt(cursor)
    /\ \A k \in DOMAIN attempts :
          VerifyRaisedAt(k) =>
              /\ attempts[k].status = "reported"
              /\ UIDefaults(attempts[k].returned)
              /\ Message("error", k) \notin Range(messages)

\* C17: in a batch a failing fetch or analysis produces no report and does
\* not stop the others: when the run ends every locator has been attempted,
\* and the results are the reports of the audits that succeeded, in input
\* order.
ReportedAttempts == SelectSeq(attempts, LAMBDA a : a.status = "reported")

C17_BatchIsolatesFailures ==
    /\ pc \in {"done", "crashed"} => Len(attempts) = Len(articles)
    /\ \A k \in DOMAIN attempts :
          /\ attempts[k].locator = articles[k]
          /\ attempts[k].status # "reported" => attempts[k].returned = NoReport
    /\ results = [i \in DOMAIN ReportedAttempts |-> ReportedAttempts[i].returned]

\* the structured form, parsed again
Reparsed == json_loads(json_text)

Buckets(r) ==
    <<r.actionable_issues, r.brief_issues, r.targeted_issues, r.technical_issues,
      r.audience_issues>>
BucketKeys == <<"actionable", "brief", "targeted", "technical", "audience">>

\* the length of the list under "issues" for the i-th category
ParsedCount(i) ==
    Len(DictGet(DictGet(Reparsed.val, "issues", PyNone), BucketKeys[i], PyNone).items)

\* C18: the structured form, parsed again, has the report's score, and its
\* "total_issues" is the sum of the lengths of the five lists under
\* "issues", each of which has the length of the report's bucket.
C18_StructuredRoundTrip ==
    pc = "json" =>
        LET r == report.result
        IN  /\ Reparsed.ok
            /\ DictGet(Reparsed.val, "overall_score", PyNone) = r.overall_score
            /\ \A i \in 1..5 :
                  /\ HasKey(DictGet(Reparsed.val, "issues", PyNone), BucketKeys[i])
                  /\ ParsedCount(i) = Len(Buckets(r)[i])
            /\ DictGet(Reparsed.val, "total_issues", PyNone) =
                  PyInt(ParsedCount(1) + ParsedCount(2) + ParsedCount(3)
                        + ParsedCount(4) + ParsedCount(5))

C18_Witness ==
    /\ pc = "json"
    /\ Reparsed.ok
    /\ DictGet(Reparsed.val, "total_issues", PyNone) = PyInt(4)
    /\ ParsedCount(5) = 1
    /\ ParsedCount(1) = 0
    /\ report.result.overall_score = PyInt(85)

\* the headings of the document, in order
Headings == SelectSeq(markdown, LAMBDA l : l.level > 0)

When(cond, heading) == IF cond THEN <<heading>> ELSE <<>>

ExpectedHeadings(r) ==
    << Line(1, "Audit Report: " \o r.article_title),
       Line(2, "Overall Assessment"), Line(2, "Audience"),
       Line(2, "Content Completeness"), Line(2, "Issues Summary") >>
    \o When(r.actionable_issues # <<>>, Line(3, "Actionable Issues"))
    \o When(r.brief_issues # <<>>, Line(3, "Brief Issues"))
    \o When(r.targeted_issues # <<>>, Line(3, "Targeted Issues"))
    \o When(r.technical_issues # <<>>, Line(3, "Technical Issues"))
    \o When(r.audience_issues # <<>>, Line(3, "Audience Issues"))
    \o When(r.hardcoded_links # <<>>, Line(2, "Hardcoded Links (Need Dynamic Localization)"))
    \o When(r.ui_elements_total > 0, Line(2, "UI Verification"))
    \o When(Truthy(r.member_services_flag), Line(2, "[warning] Member Services Flag"))

\* C19: the document has its sections in the order header, overall
\* assessment, audience, completeness, issues summary, category details,
\* hardcoded links, UI verification, escalation; a category block is there
\* exactly when its bucket is non-empty, the hardcoded-links block exactly
\* when hardcoded_links is non-empty, the UI block exactly when
\* ui_elements_total > 0, the escalation block exactly when the flag is set.
C19_MarkdownSections ==
    pc = "markdown" => Headings = ExpectedHeadings(report.result)

C19_Witness ==
    /\ pc = "markdown"
    /\ report.result.actionable_issues # <<>>
    /\ report.result.targeted_issues = <<>>
    /\ report.result.hardcoded_links # <<>>
    /\ report.result.ui_elements_total = 0
    /\ Truthy(report.result.member_services_flag)
    /\ Len(Headings) = 10

\* a run of three newlines starts at position i of a text
ThreeNewlinesAt(text, i) ==
    /\ i + 2 <= Len(text)
    /\ text[i] = NL /\ text[i + 1] = NL /\ text[i + 2] = NL

\* C20: for every markup the extracted text holds no run of three or more
\* newline characters, hence no three consecutive empty lines.
C20_NoLongNewlineRuns ==
    pc = "text" => \A i \in DOMAIN extracted : ~ThreeNewlinesAt(extracted, i)

C20_Witness ==
    /\ pc = "text"
    /\ \E i \in DOMAIN html_content[1].text :
          /\ i > 1
          /\ html_content[1].text[i - 1] = "a"
          /\ ThreeNewlinesAt(html_content[1].text, i)
    /\ extracted = <<"a", NL, NL, "a">>

\* the audit of the first end-to-end scenario has produced its report
ScenarioReported ==
    /\ pc = "done"
    /\ html_content = SaveParagraph
    /\ sent = CleanResponse

\* the positions of the button elements in the UI report
ButtonPositions ==
    {i \in DOMAIN ui_report.elements_found :
        ui_report.elements_found[i].element_type = "button"}

\* C21: for the body <p>Click <strong>Save</strong> to continue.</p> and a
\* response with overall_score 85 and no issues, the report has score 85,
\* rating "Good" and no issues, and the UI report holds one button
\* element, "Save", whose result is verified with confidence 0.9.
C21_ScenarioOne ==
    ScenarioReported =>
        /\ report.raised = ""
        /\ report.result.overall_score = PyInt(85)
        /\ report.result.quality_rating = "Good"
        /\ total_issues(report.result) = 0
        /\ ui_report.present
        /\ Cardinality(ButtonPositions) = 1
        /\ \A i \in ButtonPositions :
              /\ ui_report.elements_found[i].text = <<"S", "a", "v", "e">>
              /\ ui_report.results[i].element = ui_report.elements_found[i]
              /\ ui_report.results[i].status = "verified"
              /\ ui_report.results[i].confidence = 90

C21_Witness ==
    /\ ScenarioReported
    /\ ButtonPositions # {}
    /\ report.result.ui_elements_total = Len(ui_report.elements_found)

\* the navigation elements the extraction produced
NavigationElements == {e \in Range(elements) : e.element_type = "navigation"}

\* C23: every navigation element the extraction produces has a phrase that
\* begins with a capital letter; a phrase starting with a lower-case letter
\* is never captured.
C23_NavigationPhraseCapitalised ==
    \A e \in NavigationElements : e.text # <<>> /\ e.text[1] \in Range(UpperLetters)

\* the order of the collaborator calls in audit_article
CallOrder == <<"fetch", "analyze", "verify", "report">>

\* C22: within one audit the fetch, the analysis, the UI verification and
\* the report generation are each called at most once and in this order;
\* the analysis only after the fetch returned, the UI verification only
\* after the analysis returned, the report only after both; after a failed
\* fetch or analysis the audit is over; an audit started while not
\* connected calls no collaborator.
C22_SingleShotOrdered ==
    /\ Len(calls) <= Len(CallOrder)
    /\ \A i \in DOMAIN calls : calls[i].step = CallOrder[i]
    /\ \A i \in DOMAIN calls : i > 1 => calls[1].ok /\ (i > 2 => calls[2].ok)
    /\ \A i \in DOMAIN calls :
          ~calls[i].ok /\ calls[i].step # "verify" => i = Len(calls) /\ pc = "idle"
    /\ ~connected => calls = <<>>

C22_Witness ==
    /\ Len(calls) = 4
    /\ ~calls[3].ok
    /\ calls[4].ok
    /\ produced = 2

\* a Connect press has just failed
ConnectFailed ==
    /\ Len(messages') = Len(messages) + 1
    /\ messages'[Len(messages')] \in {Message("error", "Failed to connect to Zendesk"),
                                       Message("error", "Connection error")}

\* C25: throughout a session connected implies that the client and the
\* analyzer are set, and a Connect press whose connection test fails or
\* that raises leaves connected, the client and the analyzer unchanged.
C25_ConnectedImpliesCollaborators ==
    /\ [](connected => zendesk_client # NoClient /\ analyzer # NoAnalyzer)
    /\ [][ConnectFailed => UNCHANGED <<connected, zendesk_client, analyzer>>]_vars

C25_Witness ==
    /\ connected
    /\ zendesk_client = ZendeskClient("seller")
    /\ Len(messages) = 3
    /\ messages[2] = Message("error", "Failed to connect to Zendesk")
    /\ messages[3] = Message("error", "Connection error")

\* C26: audit_history only grows at its end: a step that returns a report
\* appends exactly the entry of that report (title, score, total issues,
\* url), every other step leaves the history unchanged, and its length is
\* the number of reports produced.
C26_HistoryAppendOnly ==
    /\ [](Len(audit_history) = produced)
    /\ [][IF produced' = produced + 1
          THEN /\ report'.raised = ""
               /\ audit_history' = Append(audit_history,
                      [title |-> report'.result.article_title,
                       score |-> outcome.result.overall_score,
                       issues |-> total_issues(report'.result),
                       url |-> article.html_url])
          ELSE produced' = produced /\ audit_history' = audit_history]_vars

C26_Witness ==
    /\ Len(audit_history) = 1
    /\ produced = 1
    /\ audit_history[1].score = PyInt(85)
    /\ audit_history[1].issues >= 1
    /\ \E i \in DOMAIN messages : messages[i] = Message("error", "Failed to fetch article")

\* C24: get_secret returns the secret of the key when the store holds one,
\* otherwise the environment variable of that name, otherwise the default;
\* so with a readable store that lacks the key it returns the environment
\* variable.
C24_SecretThenEnvironmentThenDefault ==
    pc = "returned" =>
        secret = IF secrets.readable /\ lookup.key \in DOMAIN secrets.entries
                 THEN secrets.entries[lookup.key]
                 ELSE IF lookup.key \in DOMAIN environ THEN environ[lookup.key]
                 ELSE lookup.default

\* C27: in the report of verify_article results has the length of
\* elements_found and its i-th result is about the i-th element; in the
\* AuditReport built from it the verified elements and the manual-review
\* items are each at most ui_elements_total.
C27_ResultsParallelToElements ==
    /\ ui_report.present =>
          /\ Len(ui_report.results) = Len(ui_report.elements_found)
          /\ \A i \in DOMAIN ui_report.results :
                ui_report.results[i].element = ui_report.elements_found[i]
    /\ pc = "done" /\ report.raised = "" =>
          /\ report.result.ui_elements_total = Len(ui_report.elements_found)
          /\ report.result.ui_elements_verified <= report.result.ui_elements_total
          /\ Len(report.result.ui_manual_review_items) <= report.result.ui_elements_total

C27_Witness ==
    /\ pc = "done"
    /\ report.result.ui_elements_total = 3
    /\ report.result.ui_elements_verified = 2
    /\ Len(report.result.ui_manual_review_items) = 1
    /\ \E i \in DOMAIN ui_report.results : ui_report.results[i].status = "unverified"

\* an issue about links with hardcoded language tags
AboutHardcodedLinks(issue) == \E n \in 1..MaxLinks : issue = HardcodedIssue(n)

\* C28: the degraded result of the failure path has no hardcoded link and
\* no issue about hardcoded links, even when the pre-scan of the body
\* flagged links; a result that carries pre-scan links comes from the
\* success path.
C28_FailureDropsPreScan ==
    Analyzed /\ outcome.raised = "" =>
        /\ outcome.path = "failure" =>
              /\ outcome.result.hardcoded_links = <<>>
              /\ \A i \in DOMAIN outcome.result.issues :
                    ~AboutHardcodedLinks(outcome.result.issues[i])
        /\ outcome.result.hardcoded_links # <<>> => outcome.path = "success"

C28_Witness ==
    /\ pc = "analyzed"
    /\ outcome.path = "failure"
    /\ Len(_check_hardcoded_links(article.body)) = 2
    /\ outcome.result.hardcoded_links = <<>>
====
